---- MODULE Spec2Model ----
(***************************************************************************)
(* Model of the membership core of tattle: NodeManager (state.py), Timer   *)
(* (timer.py) and the probe machinery of Cluster (cluster.py).             *)
(*                                                                         *)
(* The event loop is single threaded: a coroutine runs until it awaits     *)
(* something that is not ready.  The NodeManager lock is never contended   *)
(* (no holder suspends), so every on_node_* handler is one atomic action.  *)
(***************************************************************************)
EXTENDS Integers, Sequences, FiniteSets, TLC

VARIABLES
    local_node_name,  \* NodeManager._local_node_name ("" models None)
    leaving,          \* NodeManager._leaving
    local_node_seq,   \* NodeManager._local_node_seq (value of the Sequence)
    nodes,            \* NodeManager._nodes: ordered list of node names
    nodes_map,        \* NodeManager._nodes_map: name -> Node fields
    suspect_nodes,    \* NodeManager._suspect_nodes: name -> SuspectNode
    timer_tasks,      \* created, not yet run, _handle_suspect_timer tasks per node
    queue,            \* BroadcastQueue: subject -> pending item
    emitted,          \* events emitted by the last step
    probe_seq,        \* Cluster._probe_seq (value of the Sequence)
    probe_status,     \* Cluster._probe_status: seq -> state of the future
    probes,           \* the probe coroutines of this process, in creation order
    probe_index,      \* Cluster._probe_index
    sent,             \* messages handed to the sockets by the last step
    log,              \* warnings about unknown probes logged by the last step
    start_pc,         \* position of the Cluster.start() call in progress
    udp_task,         \* UDPListener._task: the receive posted last
    udp_reads,        \* number of receives posted on the UDP socket and pending
    server,           \* TCPListener._server
    servers,          \* number of TCP servers listening
    probe_schedule,   \* Cluster._probe_schedule
    sync_schedule,    \* Cluster._sync_schedule
    retransmit_multi, \* config.retransmit_multi
    suspicion_min_timeout_multi,  \* config.suspicion_min_timeout_multi
    gossiped,         \* per subject, the datagrams counted that carried its item
    timer_handle,     \* Timer._handle of a Timer on its own (0 models None)
    timer_started,    \* Timer._started is not None
    timer_time,       \* Timer.time
    loop_handles,     \* the call_later handles the loop was given, by number
    timer_calls       \* number of calls of Timer.func

nmvars == <<local_node_name, leaving, local_node_seq, nodes, nodes_map,
            suspect_nodes, timer_tasks, queue, emitted>>
clvars == <<probe_seq, probe_status, probes, probe_index>>
cfvars == <<start_pc, udp_task, udp_reads, server, servers,
            probe_schedule, sync_schedule, retransmit_multi,
            suspicion_min_timeout_multi, gossiped>>
tmvars == <<timer_handle, timer_started, timer_time, loop_handles, timer_calls>>
lcvars == <<start_pc, udp_task, udp_reads, server, servers,
            probe_schedule, sync_schedule, retransmit_multi,
            suspicion_min_timeout_multi, gossiped, tmvars>>
vars == <<local_node_name, leaving, local_node_seq, nodes, nodes_map,
          suspect_nodes, timer_tasks, queue, emitted,
          probe_seq, probe_status, probes, probe_index, sent, log,
          start_pc, udp_task, udp_reads, server, servers,
          probe_schedule, sync_schedule, retransmit_multi,
          suspicion_min_timeout_multi, gossiped,
          timer_handle, timer_started, timer_time, loop_handles, timer_calls>>

----------------------------------------------------------------------------
(* Bounds of the model *)

MaxInc == 3          \* largest incarnation carried by a received report
MaxSeq == 2          \* cap on the values drawn from a Sequence
MaxTasks == 1        \* cap on pending suspicion-timer tasks per node
MaxProbes == 2       \* cap on probe coroutines created
MaxReads == 2        \* cap on receives posted on the UDP socket
MaxFrames == 3       \* cap on the frames of one datagram
MaxHandles == 3      \* cap on the call_later handles a Timer on its own creates

(* Configuration and inputs *)

NodeName == "a"                  \* config.node_name
LocalHost == "h1"                \* Cluster.local_node_address
LocalPort == 7946                \* Cluster.local_node_port
RetransmitMulti == 2             \* config.retransmit_multi
SuspicionMinTimeoutMulti == 4    \* config.suspicion_min_timeout_multi

Names == {"a", "b"}
Hosts == {"h1", "h2"}
Ports == {LocalPort}
Keys == {"k"}
MetaVals == {"none", "v1"}           \* "none": the key is absent
Metadata == [Keys -> MetaVals]
EmptyMeta == [k \in Keys |-> "none"]
Incs == 0..MaxInc

\* The hosts a report about a node may carry: the first report about a node
\* carries its address, later ones may carry a conflicting one
TrueHost(name) == IF name = NodeName THEN LocalHost ELSE "h2"

ReportedHosts(name) ==
    IF name \in DOMAIN nodes_map THEN Hosts ELSE {TrueHost(name)}

\* The metadata a report about a node may carry: the local node's own
\* metadata is Cluster._metadata, which is {}
ReportedMeta(name) == IF name = NodeName THEN {EmptyMeta} ELSE Metadata

NODE_STATUS_ALIVE == "ALIVE"
NODE_STATUS_SUSPECT == "SUSPECT"
NODE_STATUS_DEAD == "DEAD"

None == ""

----------------------------------------------------------------------------
(* Helpers *)

Remove(f, x) == [k \in (DOMAIN f) \ {x} |-> f[k]]

Put(f, x, v) == [k \in (DOMAIN f) \cup {x} |-> IF k = x THEN v ELSE f[k]]

\* dict | dict: union, the right operand wins per key
MergeMeta(old, new) == [k \in Keys |-> IF new[k] # "none" THEN new[k] ELSE old[k]]

\* Sequence.increment(): starts at 0, the first value returned is 1.  The
\* 64-bit wrap-around lies far beyond MaxSeq, the cap the guards put on v
Increment(v) == v + 1

\* Node(name, host, port): incarnation 0, status DEAD, empty metadata
Node(host, port) ==
    [host |-> host, port |-> port, incarnation |-> 0,
     status |-> NODE_STATUS_DEAD, metadata |-> EmptyMeta]

\* NodeManager.local_node: _nodes_map.get(_local_node_name)
IsLocal(name, lname) == lname # None /\ name = lname

\* BroadcastQueue.push(subject, payload): replaces the item of the subject
Push(q, name, kind, node) ==
    Put(q, name, [kind |-> kind, incarnation |-> node.incarnation, transmits |-> 0])

\* a swap that copies the last element over the one at index i
SwapNodes_Overwrites(s, i) ==
    [j \in 1..Len(s) |-> IF j = i THEN s[Len(s)] ELSE s[j]]

\* _swap_random_nodes: the last element is swapped with the one at index i
SwapNodes(s, i) ==
    [j \in 1..Len(s) |-> IF j = i THEN s[Len(s)]
                         ELSE IF j = Len(s) THEN s[i] ELSE s[j]]

----------------------------------------------------------------------------
(* NodeManager: suspicion records (state.py) and Timer (timer.py) *)

\* _calculate_expected_confirmations(n, multi)
ExpectedConfirmations(n, multi) ==
    LET k == multi - 2
    IN IF n - 2 < k THEN 0 ELSE k

\* SuspectNode(timer_, k, min_timeout, max_timeout, dict()) of
\* _create_suspect_node for a cluster of n nodes: the Timer is created with
\* max_timeout if k < 1 and with min_timeout otherwise, and started
SuspectNode(n, multi) ==
    LET k == ExpectedConfirmations(n, multi)
    IN [timer |-> "armed", k |-> k,
        timeout |-> IF k < 1 THEN "max_timeout" ELSE "min_timeout"]

\* a _create_suspect_node that replaces the record and starts a new Timer
CreateSuspectNode_Restarts(s, name) ==
    Put(s, name, SuspectNode(Len(nodes), suspicion_min_timeout_multi))

\* _create_suspect_node: ignored if a record exists; else a record is stored
\* and its Timer started (Timer.start: call_later pending)
CreateSuspectNode(s, name) ==
    IF name \in DOMAIN s THEN s
    ELSE Put(s, name, SuspectNode(Len(nodes), suspicion_min_timeout_multi))

\* a cancellation that stops the Timer and forgets to delete the record
CancelSuspectNode_KeepsRecord(s, name) == s

\* _cancel_suspect_node: Timer.stop() and del _suspect_nodes[name]
CancelSuspectNode(s, name) == Remove(s, name)

\* _suspect_nodes[node.name] of _cancel_suspect_node raises KeyError when the
\* node has no record: the handler is left before it changed anything
CancelRaises(current_node, name) ==
    current_node.status = NODE_STATUS_SUSPECT /\ name \notin DOMAIN suspect_nodes

\* incarnation tests that let a report at the current incarnation through
AliveIgnored_AcceptsEqual(current_node, is_local_node, incarnation, host, port) ==
    \/ current_node.host # host
    \/ current_node.port # port
    \/ incarnation < current_node.incarnation

\* the two `return`s of on_node_alive on the incarnation, and the one on the address
AliveIgnored(current_node, is_local_node, incarnation, host, port) ==
    \/ current_node.host # host
    \/ current_node.port # port
    \/ (~is_local_node /\ incarnation <= current_node.incarnation)
    \/ (is_local_node /\ incarnation < current_node.incarnation)

\* a test that lets a report about a DEAD node through
ReportIgnored_AcceptsDead(name, incarnation) ==
    \/ name \notin DOMAIN nodes_map
    \/ incarnation < nodes_map[name].incarnation

\* the `return`s of on_node_suspect and on_node_dead before the local-node test
ReportIgnored(name, incarnation) ==
    \/ name \notin DOMAIN nodes_map
    \/ nodes_map[name].status = NODE_STATUS_DEAD
    \/ incarnation < nodes_map[name].incarnation

\* _refute: the local incarnation becomes the next value of the local
\* sequence and an ALIVE about the local node is queued; the status is kept
Refute ==
    /\ local_node_seq < MaxSeq
    /\ local_node_seq' = Increment(local_node_seq)
    /\ nodes_map' = [nodes_map EXCEPT
                       ![local_node_name].incarnation = Increment(local_node_seq)]
    /\ queue' = Push(queue, local_node_name, "ALIVE", nodes_map'[local_node_name])
    /\ emitted' = <<>>
    /\ UNCHANGED <<nodes, suspect_nodes>>

\* an on_node_alive that emits node.alive for every report it accepts
AliveEvents_Always(old_status, name) == << <<"node.alive", name>> >>

\* on_node_alive: 'node.alive' is emitted if the status changed
AliveEvents(old_status, name) ==
    IF old_status # NODE_STATUS_ALIVE THEN << <<"node.alive", name>> >> ELSE <<>>

\* the part of the NodeManager that on_node_alive reads and writes
State ==
    [nodes |-> nodes, nodes_map |-> nodes_map, suspect_nodes |-> suspect_nodes,
     queue |-> queue]

\* an on_node_alive without its incarnation tests
AliveResult_NoIncarnationTest(st, name, incarnation, host, port, metadata, lname, random_index) ==
    LET known == name \in DOMAIN st.nodes_map
        map1 == IF known THEN st.nodes_map ELSE Put(st.nodes_map, name, Node(host, port))
        current_node == map1[name]
        updated == [current_node EXCEPT !.incarnation = incarnation,
                                        !.status = NODE_STATUS_ALIVE,
                                        !.metadata = MergeMeta(@, metadata)]
    IN IF current_node.host # host \/ current_node.port # port
       THEN [nodes |-> st.nodes, nodes_map |-> map1, suspect_nodes |-> st.suspect_nodes,
             queue |-> st.queue, emitted |-> <<>>]
       ELSE [nodes |-> IF known THEN st.nodes
                       ELSE SwapNodes(Append(st.nodes, name), random_index),
             nodes_map |-> Put(map1, name, updated),
             suspect_nodes |-> Remove(st.suspect_nodes, name),
             queue |-> Push(st.queue, name, "ALIVE", updated),
             emitted |-> IF current_node.status # NODE_STATUS_ALIVE
                         THEN << <<"node.alive", name>> >> ELSE <<>>]

\* on_node_alive as a function of the state st it finds: the state it leaves
\* and the events it emits; lname is _local_node_name as the handler reads
\* it, random_index the draw of _swap_random_nodes
AliveResult(st, name, incarnation, host, port, metadata, lname, random_index) ==
    LET known == name \in DOMAIN st.nodes_map
        map1 == IF known THEN st.nodes_map ELSE Put(st.nodes_map, name, Node(host, port))
        list1 == IF known THEN st.nodes
                 ELSE SwapNodes(Append(st.nodes, name), random_index)
        current_node == map1[name]
        is_local_node == IsLocal(name, lname)
        updated == [current_node EXCEPT !.incarnation = incarnation,
                                        !.status = NODE_STATUS_ALIVE,
                                        !.metadata = MergeMeta(@, metadata)]
    IN IF \/ AliveIgnored(current_node, is_local_node, incarnation, host, port)
          \/ (current_node.status = NODE_STATUS_SUSPECT
              /\ name \notin DOMAIN st.suspect_nodes)
       THEN [nodes |-> list1, nodes_map |-> map1, suspect_nodes |-> st.suspect_nodes,
             queue |-> st.queue, emitted |-> <<>>]
       ELSE [nodes |-> list1,
             nodes_map |-> Put(map1, name, updated),
             suspect_nodes |-> IF current_node.status = NODE_STATUS_SUSPECT
                               THEN CancelSuspectNode(st.suspect_nodes, name)
                               ELSE st.suspect_nodes,
             queue |-> Push(st.queue, name, "ALIVE", updated),
             emitted |-> AliveEvents(current_node.status, name)]

\* the draws _swap_random_nodes can make when on_node_alive meets name
RandomIndexes(st, name) ==
    IF name \in DOMAIN st.nodes_map THEN {1} ELSE 1..(Len(st.nodes) + 1)

\* on_node_alive; lname is _local_node_name as the handler reads it
OnNodeAlive(name, incarnation, host, port, metadata, lname) ==
    \E random_index \in RandomIndexes(State, name) :
      LET r == AliveResult(State, name, incarnation, host, port, metadata, lname,
                           random_index)
      IN /\ nodes' = r.nodes
         /\ nodes_map' = r.nodes_map
         /\ suspect_nodes' = r.suspect_nodes
         /\ queue' = r.queue
         /\ emitted' = r.emitted

\* on_node_dead; lv is _leaving as the handler reads it.  Before
\* set_local_node, local_node is None and _broadcast_dead raises
\* AttributeError after the node was updated: nothing is queued or emitted
OnNodeDead(name, incarnation, lv) ==
    IF ReportIgnored(name, incarnation) \/ CancelRaises(nodes_map[name], name)
    THEN /\ emitted' = <<>>
         /\ UNCHANGED <<local_node_seq, nodes, nodes_map, suspect_nodes, queue>>
    ELSE IF IsLocal(name, local_node_name) /\ ~lv
    THEN Refute
    ELSE LET current_node == nodes_map[name]
             updated == [current_node EXCEPT !.incarnation = incarnation,
                                             !.status = NODE_STATUS_DEAD]
         IN /\ suspect_nodes' =
                   IF current_node.status = NODE_STATUS_SUSPECT
                   THEN CancelSuspectNode(suspect_nodes, name)
                   ELSE suspect_nodes
            /\ nodes_map' = Put(nodes_map, name, updated)
            /\ queue' = IF local_node_name = None THEN queue
                        ELSE Push(queue, name, "DEAD", updated)
            /\ emitted' = IF local_node_name = None THEN <<>>
                          ELSE << <<"node.dead", name>> >>
            /\ UNCHANGED <<local_node_seq, nodes>>

\* on_node_suspect.  Before set_local_node, _broadcast_suspect raises
\* AttributeError after the node was updated and the record created
OnNodeSuspect(name, incarnation, metadata) ==
    IF ReportIgnored(name, incarnation)
    THEN /\ emitted' = <<>>
         /\ UNCHANGED <<local_node_seq, nodes, nodes_map, suspect_nodes, queue>>
    ELSE IF IsLocal(name, local_node_name)
    THEN Refute
    ELSE LET current_node == nodes_map[name]
             updated == [current_node EXCEPT !.incarnation = incarnation,
                                             !.status = NODE_STATUS_SUSPECT,
                                             !.metadata = MergeMeta(@, metadata)]
         IN /\ suspect_nodes' = CreateSuspectNode(suspect_nodes, name)
            /\ nodes_map' = Put(nodes_map, name, updated)
            /\ queue' = IF local_node_name = None THEN queue
                        ELSE Push(queue, name, "SUSPECT", updated)
            /\ emitted' = IF local_node_name # None
                             /\ current_node.status # NODE_STATUS_SUSPECT
                          THEN << <<"node.suspect", name>> >> ELSE <<>>
            /\ UNCHANGED <<local_node_seq, nodes>>

\* Cluster.local_metadata
LocalMetadata ==
    IF local_node_name # None /\ local_node_name \in DOMAIN nodes_map
    THEN nodes_map[local_node_name].metadata ELSE EmptyMeta

\* set_local_node: its effect on the NodeManager
NodeManagerSetLocalNode ==
    /\ local_node_seq < MaxSeq
    /\ local_node_name' = NodeName
    /\ local_node_seq' = Increment(local_node_seq)
    /\ OnNodeAlive(NodeName, Increment(local_node_seq), LocalHost, LocalPort,
                   LocalMetadata, NodeName)
    /\ UNCHANGED <<leaving, timer_tasks>>

\* set_local_node (called by Cluster.start) as a step of its own
SetLocalNode ==
    /\ NodeManagerSetLocalNode
    /\ sent' = <<>>
    /\ log' = <<>>
    /\ UNCHANGED clvars
    /\ UNCHANGED lcvars

\* a leave that does not raise the `leaving` flag
LeaveLocalNode_NoFlag ==
    /\ local_node_name # None
    /\ OnNodeDead(local_node_name, nodes_map[local_node_name].incarnation, leaving)
    /\ UNCHANGED <<local_node_name, leaving, timer_tasks>>
    /\ sent' = <<>>
    /\ log' = <<>>
    /\ UNCHANGED clvars
    /\ UNCHANGED lcvars

\* leave_local_node (called by Cluster.leave)
LeaveLocalNode ==
    /\ local_node_name # None
    /\ leaving' = TRUE
    /\ OnNodeDead(local_node_name, nodes_map[local_node_name].incarnation, TRUE)
    /\ UNCHANGED <<local_node_name, timer_tasks>>
    /\ sent' = <<>>
    /\ log' = <<>>
    /\ UNCHANGED clvars
    /\ UNCHANGED lcvars

\* Timer._run: the call_later handle fires, func() returns the coroutine
\* _handle_suspect_timer and create_task schedules it
TimerRun(name) ==
    /\ name \in DOMAIN suspect_nodes
    /\ suspect_nodes[name].timer = "armed"
    /\ timer_tasks[name] < MaxTasks
    /\ suspect_nodes' = [suspect_nodes EXCEPT ![name].timer = "fired"]
    /\ timer_tasks' = [timer_tasks EXCEPT ![name] = @ + 1]
    /\ emitted' = <<>>
    /\ UNCHANGED <<local_node_name, leaving, local_node_seq, nodes, nodes_map, queue>>
    /\ sent' = <<>>
    /\ log' = <<>>
    /\ UNCHANGED clvars
    /\ UNCHANGED lcvars

\* _handle_suspect_timer: on_node_dead(node.name, node.incarnation), the
\* incarnation being read when the task runs
HandleSuspectTimer(name) ==
    /\ timer_tasks[name] > 0
    /\ timer_tasks' = [timer_tasks EXCEPT ![name] = @ - 1]
    /\ OnNodeDead(name, nodes_map[name].incarnation, leaving)
    /\ UNCHANGED <<local_node_name, leaving>>
    /\ sent' = <<>>
    /\ log' = <<>>
    /\ UNCHANGED clvars
    /\ UNCHANGED lcvars

----------------------------------------------------------------------------
(* Cluster: dispatch of received membership reports (cluster.py) *)

\* _handle_alive_message
HandleAliveMessage(name, incarnation, host, port, metadata) ==
    /\ OnNodeAlive(name, incarnation, host, port, metadata, local_node_name)
    /\ UNCHANGED <<local_node_name, leaving, local_node_seq, timer_tasks>>
    /\ sent' = <<>>
    /\ log' = <<>>
    /\ UNCHANGED clvars
    /\ UNCHANGED lcvars

\* _handle_suspect_message: the metadata passed is {}
HandleSuspectMessage(name, incarnation) ==
    /\ OnNodeSuspect(name, incarnation, EmptyMeta)
    /\ UNCHANGED <<local_node_name, leaving, timer_tasks>>
    /\ sent' = <<>>
    /\ log' = <<>>
    /\ UNCHANGED clvars
    /\ UNCHANGED lcvars

\* _handle_dead_message
HandleDeadMessage(name, incarnation) ==
    /\ OnNodeDead(name, incarnation, leaving)
    /\ UNCHANGED <<local_node_name, leaving, timer_tasks>>
    /\ sent' = <<>>
    /\ log' = <<>>
    /\ UNCHANGED clvars
    /\ UNCHANGED lcvars

\* a merge that takes a remote DEAD at its word
MergeNodeState_AcceptsDead(name, incarnation, host, port, status, metadata) ==
    /\ IF status = NODE_STATUS_ALIVE
       THEN OnNodeAlive(name, incarnation, host, port, metadata, local_node_name)
            /\ UNCHANGED local_node_seq
       ELSE IF status = NODE_STATUS_SUSPECT
       THEN OnNodeSuspect(name, incarnation, metadata)
       ELSE OnNodeDead(name, incarnation, leaving)
    /\ UNCHANGED <<local_node_name, leaving, timer_tasks>>

\* _merge_remote_state, for one entry of a received SYNC: ALIVE goes to
\* on_node_alive, SUSPECT and DEAD both go to on_node_suspect
MergeNodeState(name, incarnation, host, port, status, metadata) ==
    /\ IF status = NODE_STATUS_ALIVE
       THEN OnNodeAlive(name, incarnation, host, port, metadata, local_node_name)
            /\ UNCHANGED local_node_seq
       ELSE OnNodeSuspect(name, incarnation, metadata)
    /\ UNCHANGED <<local_node_name, leaving, timer_tasks>>

\* _merge_remote_state as a step of its own, whichever handler called it
MergeRemoteState(name, incarnation, host, port, status, metadata) ==
    /\ MergeNodeState(name, incarnation, host, port, status, metadata)
    /\ sent' = <<>>
    /\ log' = <<>>
    /\ UNCHANGED clvars
    /\ UNCHANGED lcvars

\* _send_local_state: one SYNC with an entry for every known node
SyncMessage(map) ==
    [msg |-> [kind |-> "SYNC", nodes |-> map, to |-> "stream"], gossip |-> {}]

\* _handle_tcp_message -> _handle_sync_message, on a connection this process
\* accepted, for a SYNC of one entry: the entry is merged and the local state
\* is written back.  The TCP listener serves no message before
\* set_local_node has run
HandleSyncMessage(name, incarnation, host, port, status, metadata) ==
    /\ local_node_name # None
    /\ MergeNodeState(name, incarnation, host, port, status, metadata)
    /\ sent' = <<SyncMessage(nodes_map')>>
    /\ log' = <<[merged |-> status, by |-> "server"]>>
    /\ UNCHANGED clvars
    /\ UNCHANGED lcvars

\* a client side that answers the reply with its own state
HandleTcpClientMessage_Replies(name, incarnation, host, port, status, metadata) ==
    /\ local_node_name # None
    /\ MergeNodeState(name, incarnation, host, port, status, metadata)
    /\ sent' = <<SyncMessage(nodes_map')>>
    /\ log' = <<[merged |-> status, by |-> "client"]>>
    /\ UNCHANGED clvars
    /\ UNCHANGED lcvars

\* the reply to a SYNC this process sent, read by _sync_host (583-590) or by
\* _after_connect_loop -> _handle_tcp_client_message, for a SYNC of one
\* entry: the entry is merged and nothing is written
HandleTcpClientMessage(name, incarnation, host, port, status, metadata) ==
    /\ local_node_name # None
    /\ MergeNodeState(name, incarnation, host, port, status, metadata)
    /\ sent' = <<>>
    /\ log' = <<[merged |-> status, by |-> "client"]>>
    /\ UNCHANGED clvars
    /\ UNCHANGED lcvars

\* _sync_host / _sync_node up to the read of the reply: the local state is
\* written to the connection this process opened
SendLocalState ==
    /\ local_node_name # None
    /\ sent' = <<SyncMessage(nodes_map)>>
    /\ emitted' = <<>>
    /\ log' = <<>>
    /\ UNCHANGED clvars
    /\ UNCHANGED <<local_node_name, leaving, local_node_seq, nodes, nodes_map,
                   suspect_nodes, timer_tasks, queue>>
    /\ UNCHANGED lcvars

----------------------------------------------------------------------------
(* Cluster: piggy-backed gossip on outgoing datagrams (cluster.py) *)

MaxBytes == 512          \* the datagram budget of _send_udp_message
EncodedLen == 128        \* length of one encoded message

\* math.ceil(math.log10(x)) for x >= 1
CeilLog10(x) == IF x <= 1 THEN 0 ELSE IF x <= 10 THEN 1 ELSE IF x <= 100 THEN 2 ELSE 3

\* a limit that rounds the logarithm down
TransmitLimit_Floor(n, m) ==
    (IF n + 1 < 10 THEN 0 ELSE IF n + 1 < 100 THEN 1 ELSE 2) * m

\* _calculate_transmit_limit(n, m)
TransmitLimit(n, m) == CeilLog10(n + 1) * m

\* the subjects of S ordered by transmit count, lowest first
RECURSIVE ByTransmits(_, _)
ByTransmits(q, S) ==
    IF S = {} THEN <<>>
    ELSE LET m == CHOOSE x \in S : \A y \in S : q[x].transmits <= q[y].transmits
         IN <<m>> \o ByTransmits(q, S \ {m})

\* BroadcastQueue.fetch(max_transmits, max_bytes): the subjects returned
Fetched(q, max_transmits, max_bytes) ==
    LET order == ByTransmits(q, {n \in DOMAIN q : q[n].transmits < max_transmits})
        fit == max_bytes \div EncodedLen
        count == IF Len(order) < fit THEN Len(order) ELSE fit
    IN {order[i] : i \in 1..count}

\* BroadcastQueue.fetch: the queue it leaves; a returned item has its
\* transmit count advanced and is retired when it reaches the limit
AfterFetch(q, max_transmits, max_bytes) ==
    LET taken == Fetched(q, max_transmits, max_bytes)
        retired == {n \in taken : q[n].transmits + 1 >= max_transmits}
    IN [n \in (DOMAIN q) \ retired |->
           IF n \in taken THEN [q[n] EXCEPT !.transmits = @ + 1] ELSE q[n]]

\* _send_udp_message(host, port, msg): the datagram handed to the socket
Datagram(msg) ==
    [msg |-> msg,
     gossip |-> LET taken == Fetched(queue, TransmitLimit(Len(nodes), retransmit_multi),
                                     MaxBytes - EncodedLen)
                IN {[subject |-> n, kind |-> queue[n].kind,
                     incarnation |-> queue[n].incarnation] : n \in taken}]

\* _send_udp_message: its effect on the broadcast queue
SendUdpMessage(msg) ==
    /\ sent' = <<Datagram(msg)>>
    /\ queue' = AfterFetch(queue, TransmitLimit(Len(nodes), retransmit_multi),
                           MaxBytes - EncodedLen)

----------------------------------------------------------------------------
(* Cluster: probes (cluster.py).  A probe coroutine is                     *)
(*   "created"    scheduled by create_task, not yet run                    *)
(*   "waiting"    suspended in asyncio.wait_for(future, probe_timeout)     *)
(*   "cancelling" resumed after the timeout, future cancelled, suspended   *)
(*                once more inside wait_for                                *)
(*   "done"       finished, by return or by an exception                   *)
(* The future of a waiter is "pending", "True", "False" or "cancelled".    *)

ProbeRecord(kind, target, pc, seq, req_seq) ==
    [kind |-> kind, target |-> target, pc |-> pc, seq |-> seq, req_seq |-> req_seq,
     released |-> FALSE, result |-> "none", error |-> "none"]

\* a tick that skips the local node only
Skip_LocalOnly(node) == IsLocal(node, local_node_name)

\* _do_probe: `skip` for the node under the cursor, the local node or a DEAD one
Skip(node) ==
    \/ IsLocal(node, local_node_name)
    \/ nodes_map[node].status = NODE_STATUS_DEAD

\* the scan of _do_probe from cursor index (0-based) after `checked` skips:
\* the cursor it leaves and the node it picked (None if there is none)
RECURSIVE ProbeScan(_, _)
ProbeScan(index, checked) ==
    IF checked >= Len(nodes) THEN [index |-> index, node |-> None]
    ELSE IF index >= Len(nodes) THEN ProbeScan(0, checked)
    ELSE LET node == nodes[index + 1]
         IN IF Skip(node)
            THEN ProbeScan(index + 1, checked + 1)
            ELSE [index |-> index + 1, node |-> node]

\* _do_probe: one tick of the probe schedule, which Cluster.start starts
\* after set_local_node
DoProbe ==
    /\ local_node_name # None
    /\ Len(probes) < MaxProbes
    /\ LET scan == ProbeScan(probe_index, 0)
       IN /\ probe_index' = scan.index
          /\ probes' = IF scan.node = None THEN probes
                       ELSE Append(probes, ProbeRecord("direct", scan.node, "created", 0, 0))
    /\ emitted' = <<>>
    /\ sent' = <<>>
    /\ log' = <<>>
    /\ UNCHANGED <<probe_seq, probe_status>>
    /\ UNCHANGED <<local_node_name, leaving, local_node_seq, nodes, nodes_map,
                   suspect_nodes, timer_tasks, queue>>
    /\ UNCHANGED lcvars

\* _wait_for_probe: self._probe_status[seq] = future
Register(ps, seq) == Put(ps, seq, "pending")

\* a waiter whose `finally` leaves the entry behind
Unregister_Leaks(ps, seq) == ps

\* _wait_for_probe: finally: del self._probe_status[seq]
Unregister(ps, seq) == Remove(ps, seq)

\* a future that lets a later result overwrite an earlier outcome
SetResult_Overwrites(future, value) == value

\* Future.set_result(value): raises InvalidStateError unless the future is
\* pending; _handle_udp_message catches and logs it
SetResult(future, value) == IF future = "pending" THEN value ELSE future

\* a handler that resolves a seq whether or not a waiter is registered
HasWaiter_Always(seq) == TRUE

\* `if ack_seq in self._probe_status` of _handle_ack_message / _handle_nack_message
HasWaiter(seq) == seq \in DOMAIN probe_status

\* _probe_node up to its first suspension: the seq is drawn, the PING is
\* sent with the gossip that fits, and `await waiter` runs _wait_for_probe
\* up to wait_for, which registers the future
ProbeNode(i) ==
    /\ i \in DOMAIN probes
    /\ probes[i].pc = "created"
    /\ probe_seq' = Increment(probe_seq)
    /\ probes' = [probes EXCEPT ![i].seq = Increment(probe_seq), ![i].pc = "waiting"]
    /\ SendUdpMessage([kind |-> "PING", seq |-> Increment(probe_seq),
                       node |-> probes[i].target, to |-> probes[i].target])
    /\ probe_status' = Register(probe_status, Increment(probe_seq))
    /\ emitted' = <<>>
    /\ log' = <<>>
    /\ UNCHANGED probe_index
    /\ UNCHANGED <<local_node_name, leaving, local_node_seq, nodes, nodes_map,
                   suspect_nodes, timer_tasks>>
    /\ UNCHANGED lcvars

\* _handle_ping_request_message up to its first suspension: a fresh seq is
\* drawn, a PING is sent to the target and the waiter registered
HandlePingRequestMessage(req_seq, target) ==
    /\ Len(probes) < MaxProbes
    /\ probe_seq' = Increment(probe_seq)
    /\ probes' = Append(probes, ProbeRecord("relay", target, "waiting",
                                            Increment(probe_seq), req_seq))
    /\ SendUdpMessage([kind |-> "PING", seq |-> Increment(probe_seq),
                       node |-> target, to |-> target])
    /\ probe_status' = Register(probe_status, Increment(probe_seq))
    /\ emitted' = <<>>
    /\ log' = <<>>
    /\ UNCHANGED probe_index
    /\ UNCHANGED <<local_node_name, leaving, local_node_seq, nodes, nodes_map,
                   suspect_nodes, timer_tasks>>
    /\ UNCHANGED lcvars

\* _handle_ack_message (value "True") and _handle_nack_message ("False")
HandleResult(seq, value) ==
    /\ IF HasWaiter(seq)
       THEN /\ probe_status' = Put(probe_status, seq,
                                   SetResult(IF seq \in DOMAIN probe_status
                                             THEN probe_status[seq] ELSE "pending", value))
            /\ log' = <<>>
       ELSE /\ UNCHANGED probe_status
            /\ log' = <<[unknown |-> IF value = "True" THEN "ACK" ELSE "NACK", seq |-> seq]>>
    /\ emitted' = <<>>
    /\ sent' = <<>>
    /\ UNCHANGED <<probe_seq, probes, probe_index>>
    /\ UNCHANGED <<local_node_name, leaving, local_node_seq, nodes, nodes_map,
                   suspect_nodes, timer_tasks, queue>>
    /\ UNCHANGED lcvars

HandleAckMessage(seq) == HandleResult(seq, "True")

HandleNackMessage(seq) == HandleResult(seq, "False")

\* asyncio.wait_for: the timeout handle fires and releases the waiting task;
\* the future is left as it is until the task resumes
WaitTimeout(i) ==
    /\ i \in DOMAIN probes
    /\ probes[i].pc = "waiting"
    /\ ~probes[i].released
    /\ probes' = [probes EXCEPT ![i].released = TRUE]
    /\ emitted' = <<>>
    /\ sent' = <<>>
    /\ log' = <<>>
    /\ UNCHANGED <<probe_seq, probe_status, probe_index>>
    /\ UNCHANGED <<local_node_name, leaving, local_node_seq, nodes, nodes_map,
                   suspect_nodes, timer_tasks, queue>>
    /\ UNCHANGED lcvars

\* asyncio.wait_for: the task resumes after the timeout and finds the future
\* still pending: it cancels it and waits for the cancellation to land
WaitCancel(i) ==
    /\ i \in DOMAIN probes
    /\ probes[i].pc = "waiting"
    /\ probes[i].released
    /\ probe_status[probes[i].seq] = "pending"
    /\ probe_status' = [probe_status EXCEPT ![probes[i].seq] = "cancelled"]
    /\ probes' = [probes EXCEPT ![i].pc = "cancelling"]
    /\ emitted' = <<>>
    /\ sent' = <<>>
    /\ log' = <<>>
    /\ UNCHANGED <<probe_seq, probe_index>>
    /\ UNCHANGED <<local_node_name, leaving, local_node_seq, nodes, nodes_map,
                   suspect_nodes, timer_tasks, queue>>
    /\ UNCHANGED lcvars

\* what the waiter hands to its probe: the result of the future, or
\* TimeoutError when wait_for cancelled it
WaitResult(future) == IF future \in {"True", "False"} THEN future ELSE "TimeoutError"

\* _handle_probe_result and _handle_probe_timeout: the exception that ends
\* _probe_node ("none" if it returns).  on_node_alive and on_node_suspect are
\* called without their `metadata` argument, which raises TypeError before
\* the handler runs; a False result raises NotImplementedError
ProbeError(target, result) ==
    IF result = "True"
    THEN IF nodes_map[target].status = NODE_STATUS_SUSPECT THEN "TypeError" ELSE "none"
    ELSE IF result = "False" THEN "NotImplementedError"
    ELSE "TypeError"

\* a relay that answers under the seq of its own PING
ForwardIndirectProbeResult_LocalSeq(p) ==
    SendUdpMessage([kind |-> "ACK", seq |-> p.seq, node |-> p.target, to |-> "sender"])

\* _forward_indirect_probe_result(msg): ACK(msg.seq) to msg.sender_addr, where
\* msg is the PING-REQ the relay p serves
ForwardIndirectProbeResult(p) ==
    SendUdpMessage([kind |-> "ACK", seq |-> p.req_seq, node |-> p.target, to |-> "sender"])

\* the waiter of probe i completes (the future is resolved, or cancelled by
\* wait_for): the entry is deleted and the probe acts on the outcome.  A
\* direct probe ends in _handle_probe_result / _handle_probe_timeout; a relay
\* forwards ACK(req_seq) for any result and nothing on a timeout
WaitDone(i) ==
    /\ i \in DOMAIN probes
    /\ \/ probes[i].pc = "waiting" /\ probe_status[probes[i].seq] \in {"True", "False"}
       \/ probes[i].pc = "cancelling"
    /\ LET result == WaitResult(probe_status[probes[i].seq])
       IN /\ probe_status' = Unregister(probe_status, probes[i].seq)
          /\ IF probes[i].kind = "direct"
             THEN /\ probes' = [probes EXCEPT ![i].pc = "done", ![i].result = result,
                                    ![i].error = ProbeError(probes[i].target, result)]
                  /\ sent' = <<>>
                  /\ UNCHANGED queue
             ELSE /\ probes' = [probes EXCEPT ![i].pc = "done", ![i].result = result]
                  /\ IF result = "TimeoutError"
                     THEN sent' = <<>> /\ UNCHANGED queue
                     ELSE ForwardIndirectProbeResult(probes[i])
    /\ emitted' = <<>>
    /\ log' = <<>>
    /\ UNCHANGED <<probe_seq, probe_index>>
    /\ UNCHANGED <<local_node_name, leaving, local_node_seq, nodes, nodes_map,
                   suspect_nodes, timer_tasks>>
    /\ UNCHANGED lcvars

\* an indirect probe whose failure marks the target SUSPECT
ProbeNodeIndirect_Suspects(target) ==
    /\ local_node_name # None
    /\ target \in DOMAIN nodes_map
    /\ OnNodeSuspect(target, nodes_map[target].incarnation, EmptyMeta)
    /\ UNCHANGED <<local_node_name, leaving, timer_tasks>>
    /\ sent' = <<>>
    /\ log' = <<[error |-> "Error probing nodes", target |-> target]>>
    /\ UNCHANGED clvars
    /\ UNCHANGED lcvars

\* Cluster.ping(node, indirect=True) -> _probe_node_indirect: the relays are
\* selected and one _probe_node_indirect_via coroutine is built for each, but
\* asyncio.gather(*probes, loop=...) raises TypeError (the `loop` parameter is
\* gone in Python 3.10, and the annotations of this module need 3.10); the
\* bare except logs it and no coroutine runs: no seq is drawn, no PING-REQ
\* is sent
ProbeNodeIndirect(target) ==
    /\ local_node_name # None
    /\ target \in DOMAIN nodes_map
    /\ emitted' = <<>>
    /\ sent' = <<>>
    /\ log' = <<[error |-> "Error probing nodes", target |-> target]>>
    /\ UNCHANGED clvars
    /\ UNCHANGED <<local_node_name, leaving, local_node_seq, nodes, nodes_map,
                   suspect_nodes, timer_tasks, queue>>
    /\ UNCHANGED lcvars

----------------------------------------------------------------------------
(* Cluster.start and Cluster.stop (cluster.py), with the listeners of       *)
(* network.py.  start() suspends once, in asyncio.start_server.             *)

\* Cluster.start up to its suspension: UDPListener.start -> _read_data posts
\* a receive on the UDP socket and keeps it in _task; TCPListener.start
\* awaits asyncio.start_server
StartListeners ==
    /\ start_pc = "idle"
    /\ server # "closed"
    /\ udp_reads < MaxReads
    /\ start_pc' = "tcp"
    /\ udp_task' = "pending"
    /\ udp_reads' = udp_reads + 1
    /\ UNCHANGED <<server, servers, probe_schedule, sync_schedule>>
    /\ emitted' = <<>>
    /\ sent' = <<>>
    /\ log' = <<>>
    /\ UNCHANGED clvars
    /\ UNCHANGED <<local_node_name, leaving, local_node_seq, nodes, nodes_map,
                   suspect_nodes, timer_tasks, queue>>
    /\ UNCHANGED <<retransmit_multi, suspicion_min_timeout_multi, gossiped, tmvars>>

\* Cluster.start when asyncio.start_server raises OSError: a server of this
\* process already listens on bind_port.  start() ends with the exception
StartServerFails ==
    /\ start_pc = "tcp"
    /\ servers > 0
    /\ start_pc' = "idle"
    /\ UNCHANGED <<udp_task, udp_reads, server, servers, probe_schedule, sync_schedule>>
    /\ emitted' = <<>>
    /\ sent' = <<>>
    /\ log' = <<[error |-> "OSError", target |-> "start"]>>
    /\ UNCHANGED clvars
    /\ UNCHANGED <<local_node_name, leaving, local_node_seq, nodes, nodes_map,
                   suspect_nodes, timer_tasks, queue>>
    /\ UNCHANGED <<retransmit_multi, suspicion_min_timeout_multi, gossiped, tmvars>>

\* Cluster.start from the return of asyncio.start_server: the server is kept
\* in _server, set_local_node runs and both schedules are started
Start ==
    /\ start_pc = "tcp"
    /\ servers = 0
    /\ start_pc' = "idle"
    /\ server' = "listening"
    /\ servers' = servers + 1
    /\ NodeManagerSetLocalNode
    /\ probe_schedule' = "running"
    /\ sync_schedule' = "running"
    /\ UNCHANGED <<udp_task, udp_reads>>
    /\ sent' = <<>>
    /\ log' = <<>>
    /\ UNCHANGED clvars
    /\ UNCHANGED <<retransmit_multi, suspicion_min_timeout_multi, gossiped, tmvars>>

\* Cluster.stop on a cluster that was started: both schedules are stopped,
\* TCPListener.stop closes _server, UDPListener.stop cancels _task and closes
\* the socket.  Nothing else is touched: the probe tasks and their futures
\* stay as they are
Stop ==
    /\ start_pc = "idle"
    /\ server # "none"
    /\ probe_schedule' = "stopped"
    /\ sync_schedule' = "stopped"
    /\ server' = "closed"
    /\ servers' = IF server = "listening" THEN servers - 1 ELSE servers
    /\ udp_task' = IF udp_task = "pending" THEN "cancelled" ELSE udp_task
    /\ udp_reads' = IF udp_task = "pending" THEN udp_reads - 1 ELSE udp_reads
    /\ UNCHANGED start_pc
    /\ emitted' = <<>>
    /\ sent' = <<>>
    /\ log' = <<>>
    /\ UNCHANGED clvars
    /\ UNCHANGED <<local_node_name, leaving, local_node_seq, nodes, nodes_map,
                   suspect_nodes, timer_tasks, queue>>
    /\ UNCHANGED <<retransmit_multi, suspicion_min_timeout_multi, gossiped, tmvars>>

\* the UDP listener hands a datagram to the cluster: its receive is pending
Receiving == udp_task = "pending"

----------------------------------------------------------------------------
(* The specification of the NodeManager under arbitrary reports *)

Init ==
    /\ local_node_name = None
    /\ leaving = FALSE
    /\ local_node_seq = 0
    /\ nodes = <<>>
    /\ nodes_map = <<>>
    /\ suspect_nodes = <<>>
    /\ timer_tasks = [n \in Names |-> 0]
    /\ queue = <<>>
    /\ emitted = <<>>
    /\ probe_seq = 0
    /\ probe_status = <<>>
    /\ probes = <<>>
    /\ probe_index = 0
    /\ sent = <<>>
    /\ log = <<>>
    /\ start_pc = "idle"
    /\ udp_task = "none"
    /\ udp_reads = 0
    /\ server = "none"
    /\ servers = 0
    /\ probe_schedule = "stopped"
    /\ sync_schedule = "stopped"
    /\ retransmit_multi = RetransmitMulti
    /\ suspicion_min_timeout_multi = SuspicionMinTimeoutMulti
    /\ gossiped = <<>>
    /\ timer_handle = 0
    /\ timer_started = FALSE
    /\ timer_time = 1
    /\ loop_handles = <<>>
    /\ timer_calls = 0

Next ==
    \/ \E name \in Names, incarnation \in Incs, port \in Ports :
         \E host \in ReportedHosts(name), metadata \in ReportedMeta(name) :
           HandleAliveMessage(name, incarnation, host, port, metadata)
    \/ \E name \in Names, incarnation \in Incs :
         HandleSuspectMessage(name, incarnation)
    \/ \E name \in Names, incarnation \in Incs :
         HandleDeadMessage(name, incarnation)
    \/ \E name \in Names, incarnation \in Incs, port \in Ports,
          status \in {NODE_STATUS_ALIVE, NODE_STATUS_SUSPECT, NODE_STATUS_DEAD} :
         \E host \in ReportedHosts(name), metadata \in ReportedMeta(name) :
           /\ local_node_name # None
           /\ MergeRemoteState(name, incarnation, host, port, status, metadata)
    \/ \E name \in Names : TimerRun(name)
    \/ \E name \in Names : HandleSuspectTimer(name)
    \/ SetLocalNode
    \/ LeaveLocalNode

Spec == Init /\ [][Next]_vars

----------------------------------------------------------------------------
(* The specification of the probes: one remote node, its reports, and the  *)
(* ticks, datagrams and timeouts of the probe machinery                    *)

ProbeTargets == Names \ {NodeName}
ProbeIncs == {1}
Seqs == 1..MaxProbes

NextProbe ==
    \/ \E name \in ProbeTargets, incarnation \in ProbeIncs, port \in Ports :
         HandleAliveMessage(name, incarnation, TrueHost(name), port, EmptyMeta)
    \/ \E name \in ProbeTargets, incarnation \in ProbeIncs :
         HandleSuspectMessage(name, incarnation)
    \/ \E name \in ProbeTargets : TimerRun(name)
    \/ \E name \in ProbeTargets : HandleSuspectTimer(name)
    \/ local_node_name = None /\ SetLocalNode
    \/ DoProbe
    \/ \E i \in 1..MaxProbes : ProbeNode(i)
    \/ \E req_seq \in Seqs, target \in ProbeTargets : HandlePingRequestMessage(req_seq, target)
    \/ \E seq \in Seqs : HandleAckMessage(seq)
    \/ \E seq \in Seqs : HandleNackMessage(seq)
    \/ \E i \in 1..MaxProbes : WaitTimeout(i)
    \/ \E i \in 1..MaxProbes : WaitCancel(i)
    \/ \E i \in 1..MaxProbes : WaitDone(i)
    \/ \E target \in ProbeTargets : ProbeNodeIndirect(target)

SpecProbe == Init /\ [][NextProbe]_vars

----------------------------------------------------------------------------
(* Claims about the NodeManager, checked under Spec *)

LocalKnown == local_node_name # None /\ local_node_name \in DOMAIN nodes_map

\* C1: a node name is a key of the suspect-record table if and only if the
\* node is known and its status is SUSPECT.
C1_SuspectTableIffSuspect ==
    \A name \in Names :
        name \in DOMAIN suspect_nodes
        <=> (name \in DOMAIN nodes_map /\ nodes_map[name].status = NODE_STATUS_SUSPECT)

\* a node under suspicion whose timer has fired and whose task is still to
\* run, next to a node that is not suspect
C1_Witness ==
    \E name \in DOMAIN suspect_nodes, other \in DOMAIN nodes_map :
        /\ suspect_nodes[name].timer = "fired"
        /\ timer_tasks[name] > 0
        /\ nodes_map[name].status = NODE_STATUS_SUSPECT
        /\ nodes_map[other].status = NODE_STATUS_ALIVE

\* C2: the incarnation recorded for a name never decreases, the local
\* node's own record included.
C2_IncarnationNeverDecreases ==
    [][\A name \in DOMAIN nodes_map :
          nodes_map'[name].incarnation >= nodes_map[name].incarnation]_vars

\* the step in which a SUSPECT or DEAD report about the local node carrying
\* incarnation i is refuted (_refute is the only code that draws from the
\* local sequence after start)
RefutationOf(i) ==
    /\ LocalKnown
    /\ local_node_seq' # local_node_seq
    /\ \/ HandleSuspectMessage(local_node_name, i)
       \/ HandleDeadMessage(local_node_name, i)

\* C3: after the refutation of a report carrying incarnation i, the local
\* incarnation, which is the one of the ALIVE then pending in the queue, is
\* greater than i and greater than the incarnation recorded before.
C3_RefutationOutbids ==
    [][\A i \in Incs :
          RefutationOf(i) =>
            /\ nodes_map'[local_node_name].incarnation > i
            /\ nodes_map'[local_node_name].incarnation
                   > nodes_map[local_node_name].incarnation
            /\ queue'[local_node_name].kind = "ALIVE"
            /\ queue'[local_node_name].incarnation
                   = nodes_map'[local_node_name].incarnation]_vars

\* C4: from the completion of set_local_node until leave_local_node is
\* called, the status of the local node is ALIVE.
C4_LocalNodeAliveUntilLeave ==
    (local_node_name # None /\ ~leaving) =>
        /\ local_node_name \in DOMAIN nodes_map
        /\ nodes_map[local_node_name].status = NODE_STATUS_ALIVE

\* C16: leave_local_node of a local node that is not DEAD yet makes it DEAD
\* at the incarnation it has, queues a DEAD broadcast about it and emits
\* node.dead; once leaving, no DEAD message about the local node is refuted:
\* the local sequence does not advance and no ALIVE about the local node is
\* queued.
C16_LeaveSuppressesRefutation ==
    [][/\ (LeaveLocalNode /\ nodes_map[local_node_name].status # NODE_STATUS_DEAD)
          => /\ leaving'
             /\ nodes_map'[local_node_name].status = NODE_STATUS_DEAD
             /\ nodes_map'[local_node_name].incarnation =
                  nodes_map[local_node_name].incarnation
             /\ local_node_name \notin DOMAIN suspect_nodes'
             /\ queue'[local_node_name] =
                  [kind |-> "DEAD", transmits |-> 0,
                   incarnation |-> nodes_map[local_node_name].incarnation]
             /\ emitted' = << <<"node.dead", local_node_name>> >>
       /\ \A i \in Incs :
            (leaving /\ LocalKnown /\ HandleDeadMessage(local_node_name, i))
            => /\ local_node_seq' = local_node_seq
               /\ leaving'
               /\ queue' # queue => queue'[local_node_name].kind = "DEAD"
               /\ nodes_map'[local_node_name].status = NODE_STATUS_DEAD
                  \/ nodes_map' = nodes_map]_vars

\* the local node has just been made DEAD while leaving
C16_Witness ==
    /\ leaving /\ LocalKnown
    /\ local_node_seq >= 1
    /\ nodes_map[local_node_name].status = NODE_STATUS_DEAD
    /\ queue[local_node_name].kind = "DEAD"
    /\ queue[local_node_name].transmits = 0
    /\ emitted = << <<"node.dead", local_node_name>> >>

\* C17: the incarnation of the local node rises only by refutation: a step
\* that raises it takes the next value of the local sequence and sets the
\* incarnation to it.
C17_LocalIncarnationOnlyByRefutation ==
    [][(/\ LocalKnown
        /\ nodes_map'[local_node_name].incarnation > nodes_map[local_node_name].incarnation)
       => /\ local_node_seq' = Increment(local_node_seq)
          /\ nodes_map'[local_node_name].incarnation = local_node_seq']_vars

\* what a result of on_node_alive leaves as the state of the NodeManager
Core(r) ==
    [nodes |-> r.nodes, nodes_map |-> r.nodes_map, suspect_nodes |-> r.suspect_nodes,
     queue |-> r.queue]

\* C18: in every state, for every node X, local or not, and incarnation i,
\* on_node_alive(X, i, ...) followed by on_node_alive(X, i - 1, ...) at the
\* same address leaves the state the first call left: the second call changes
\* neither the nodes, their status, incarnation and metadata, nor the suspect
\* table, nor the broadcast queue, and emits nothing.
C18_OlderAliveChangesNothing ==
    \A name \in Names, incarnation \in 1..MaxInc, host \in Hosts, port \in Ports,
       metadata \in Metadata, metadata2 \in Metadata :
      \A random_index \in RandomIndexes(State, name) :
        LET first == AliveResult(State, name, incarnation, host, port, metadata,
                                 local_node_name, random_index)
            second == AliveResult(Core(first), name, incarnation - 1, host, port,
                                  metadata2, local_node_name, 1)
        IN /\ Core(second) = Core(first)
           /\ second.emitted = <<>>

\* an ALIVE at an incarnation of 2 or more has just been accepted about a
\* node other than the local node: a state the first call leaves
C18_Witness ==
    /\ LocalKnown
    /\ \E name \in DOMAIN nodes_map :
         /\ ~IsLocal(name, local_node_name)
         /\ nodes_map[name].incarnation >= 2
         /\ nodes_map[name].metadata # EmptyMeta
         /\ queue[name] = [kind |-> "ALIVE", transmits |-> 0,
                           incarnation |-> nodes_map[name].incarnation]
         /\ emitted = << <<"node.alive", name>> >>

\* C19: in every state, for every node, local or not, applying the same ALIVE
\* twice in a row leaves the state that applying it once leaves (nodes,
\* status, incarnation, metadata, suspect table, queued broadcast with its
\* transmit count), and the second application emits no node.alive.
C19_AliveIsIdempotent ==
    \A name \in Names, incarnation \in Incs, host \in Hosts, port \in Ports,
       metadata \in Metadata :
      \A random_index \in RandomIndexes(State, name) :
        LET once == AliveResult(State, name, incarnation, host, port, metadata,
                                local_node_name, random_index)
            twice == AliveResult(Core(once), name, incarnation, host, port, metadata,
                                 local_node_name, 1)
        IN /\ Core(twice) = Core(once)
           /\ twice.emitted = <<>>

\* the local node is known and not ALIVE: an ALIVE about it is accepted and
\* emits node.alive, and is accepted again when repeated
C19_Witness ==
    /\ LocalKnown
    /\ \E incarnation \in Incs :
         LET once == AliveResult(State, local_node_name, incarnation, LocalHost,
                                 LocalPort, EmptyMeta, local_node_name, 1)
         IN /\ once.emitted = << <<"node.alive", local_node_name>> >>
            /\ Core(once) # State
            /\ once.queue[local_node_name].transmits = 0

\* C29: after every step the ordered list and the name-to-node map hold the
\* same nodes, each name once in the list (both start empty), and no step
\* removes a node from either.
C29_ListAndMapAgree ==
    [][/\ {nodes'[i] : i \in DOMAIN nodes'} = DOMAIN nodes_map'
       /\ \A i, j \in DOMAIN nodes' : nodes'[i] = nodes'[j] => i = j
       /\ DOMAIN nodes_map \subseteq DOMAIN nodes_map'
       /\ {nodes[i] : i \in DOMAIN nodes} \subseteq {nodes'[i] : i \in DOMAIN nodes'}
       /\ Len(nodes) <= Len(nodes')]_vars

\* the remote node has just been discovered and was swapped in front of the
\* local node: both are in the list and in the map
C29_Witness ==
    /\ nodes = <<"b", "a">>
    /\ DOMAIN nodes_map = {"a", "b"}
    /\ emitted = << <<"node.alive", "b">> >>
    /\ local_node_name = NodeName

\* C21: once the local node is set, the suspicion-timer task of a node that
\* is still SUSPECT marks it DEAD at the incarnation it has, removes its
\* suspect record and emits node.dead: the timer is what ends a suspicion
\* that no ALIVE report ended.
C21_TimerMarksSuspectDead ==
    [][\A name \in Names :
         (/\ local_node_name # None
          /\ name \in DOMAIN nodes_map
          /\ nodes_map[name].status = NODE_STATUS_SUSPECT
          /\ HandleSuspectTimer(name))
         => (/\ nodes_map'[name].status = NODE_STATUS_DEAD
             /\ nodes_map'[name].incarnation = nodes_map[name].incarnation
             /\ name \notin DOMAIN suspect_nodes'
             /\ emitted' = << <<"node.dead", name>> >>)]_vars

\* C30: a SUSPECT or DEAD report about a node that is unknown, or already
\* DEAD, or at an incarnation above the report's, changes nothing: the list,
\* every node's status, incarnation and metadata, the suspect table, the
\* broadcast queue and the local sequence stay as they are, and no event is
\* emitted.  Stated on the steps: one that changes any of these is not the
\* handling of such a report.
C30_IgnoredReportChangesNothing ==
    [][\/ /\ UNCHANGED <<nodes, nodes_map, suspect_nodes, queue,
                         local_node_seq>>
          /\ emitted' = <<>>
       \/ \A name \in Names, incarnation \in Incs :
            (\/ name \notin DOMAIN nodes_map
             \/ nodes_map[name].status = NODE_STATUS_DEAD
             \/ incarnation < nodes_map[name].incarnation)
            => /\ ~HandleSuspectMessage(name, incarnation)
               /\ ~HandleDeadMessage(name, incarnation)]_vars

\* a remote node is DEAD at the highest incarnation, so that every report
\* about it meets one of the three tests, and the step that led here
\* emitted nothing: the node.dead of its death is one step behind
C30_Witness ==
    /\ local_node_name = NodeName
    /\ "b" \in DOMAIN nodes_map
    /\ nodes_map["b"].status = NODE_STATUS_DEAD
    /\ nodes_map["b"].incarnation = MaxInc
    /\ "b" \in DOMAIN queue
    /\ queue["b"].kind = "DEAD"
    /\ emitted = <<>>

\* C31: a node that is DEAD and is not the local node leaves DEAD only by an
\* accepted ALIVE report above its incarnation: in any step after which it
\* is no longer DEAD it is ALIVE at a strictly greater incarnation, the
\* ALIVE is queued and node.alive emitted.  No SUSPECT or DEAD report, merged
\* entry or timer task moves it to SUSPECT or to ALIVE.
C31_DeadLeftOnlyByNewerAlive ==
    [][\A name \in DOMAIN nodes_map :
         (/\ ~IsLocal(name, local_node_name')
          /\ nodes_map[name].status = NODE_STATUS_DEAD
          /\ nodes_map'[name].status # NODE_STATUS_DEAD)
         => (/\ nodes_map'[name].status = NODE_STATUS_ALIVE
             /\ nodes_map'[name].incarnation > nodes_map[name].incarnation
             /\ queue'[name].kind = "ALIVE"
             /\ queue'[name].incarnation = nodes_map'[name].incarnation
             /\ emitted' = << <<"node.alive", name>> >>
             /\ \E incarnation \in Incs, port \in Ports, host \in Hosts,
                   metadata \in Metadata :
                  \/ HandleAliveMessage(name, incarnation, host, port, metadata)
                  \/ MergeRemoteState(name, incarnation, host, port,
                                      NODE_STATUS_ALIVE, metadata))]_vars

\* the state a resurrection leaves: the remote node, DEAD before the report
\* (a Node is created DEAD at incarnation 0, and a DEAD report leaves it DEAD
\* at the report's incarnation), is ALIVE at the highest incarnation, its
\* ALIVE is queued and node.alive was emitted for it
C31_Witness ==
    /\ local_node_name = NodeName
    /\ "b" \in DOMAIN nodes_map
    /\ nodes_map["b"].status = NODE_STATUS_ALIVE
    /\ nodes_map["b"].incarnation = MaxInc
    /\ "b" \in DOMAIN queue
    /\ queue["b"].kind = "ALIVE"
    /\ emitted = << <<"node.alive", "b">> >>
    /\ nodes = <<"a", "b">>

\* the status a node has for the handlers: a node not yet known is created
\* DEAD by the report that discovers it
StatusOf(map, name) ==
    IF name \in DOMAIN map THEN map[name].status ELSE NODE_STATUS_DEAD

\* the event that announces a status
EventOf(status) ==
    IF status = NODE_STATUS_ALIVE THEN "node.alive"
    ELSE IF status = NODE_STATUS_SUSPECT THEN "node.suspect" ELSE "node.dead"

\* C32: an event is emitted for a status change and for nothing else, once:
\* a step emits nothing or one event, the event names a node whose status
\* the step changed and the status it changed to, and every node whose
\* status a step changes has its event emitted by that step.
C32_OneEventPerStatusChange ==
    [][/\ Len(emitted') <= 1
       /\ \A i \in DOMAIN emitted' :
            /\ emitted'[i][2] \in DOMAIN nodes_map'
            /\ emitted'[i][1] = EventOf(nodes_map'[emitted'[i][2]].status)
            /\ StatusOf(nodes_map, emitted'[i][2]) # nodes_map'[emitted'[i][2]].status
       /\ \A name \in DOMAIN nodes_map' :
            StatusOf(nodes_map, name) # nodes_map'[name].status
            => emitted' = << <<EventOf(nodes_map'[name].status), name>> >>]_vars

\* the incarnation a node has for the handlers: a Node is created at 0
IncarnationOf(map, name) ==
    IF name \in DOMAIN map THEN map[name].incarnation ELSE 0

\* C33: a step that changes the status or the incarnation of a node leaves
\* in the queue, under the node's name, a fresh item of the node's new status
\* and new incarnation; and after every step no pending item is about an
\* unknown node or reports an incarnation below the node's record (the queue
\* being keyed by name, it holds one item per node at most).
C33_ChangeIsQueuedInTheSameStep ==
    [][/\ \A name \in DOMAIN nodes_map' :
            (\/ StatusOf(nodes_map, name) # nodes_map'[name].status
             \/ IncarnationOf(nodes_map, name) # nodes_map'[name].incarnation)
            => (/\ name \in DOMAIN queue'
                /\ queue'[name] = [kind |-> nodes_map'[name].status,
                                   incarnation |-> nodes_map'[name].incarnation,
                                   transmits |-> 0])
       /\ \A name \in DOMAIN queue' :
            /\ name \in DOMAIN nodes_map'
            /\ queue'[name].incarnation >= nodes_map'[name].incarnation]_vars

\* C35: the task of a suspicion timer moves a node to DEAD only if the
\* suspicion it belongs to still stands: the node is SUSPECT and its record,
\* the one whose Timer fired, is still in the table.  A suspicion that an
\* accepted ALIVE cancelled promotes nothing.  Stated for the tasks that run
\* once the local node is set.
C35_CancelledSuspicionNeverPromotes ==
    [][\A name \in Names :
         (/\ local_node_name # None
          /\ name \in DOMAIN nodes_map
          /\ nodes_map[name].status # NODE_STATUS_DEAD
          /\ HandleSuspectTimer(name)
          /\ nodes_map'[name].status = NODE_STATUS_DEAD)
         => (/\ nodes_map[name].status = NODE_STATUS_SUSPECT
             /\ name \in DOMAIN suspect_nodes
             /\ suspect_nodes[name].timer = "fired")]_vars

\* C36: once leave_local_node has marked the local node DEAD, no later step
\* takes it out of DEAD.
C36_LeftNodeStaysDead ==
    [][(/\ leaving
        /\ local_node_name \in DOMAIN nodes_map
        /\ nodes_map[local_node_name].status = NODE_STATUS_DEAD)
       => nodes_map'[local_node_name].status = NODE_STATUS_DEAD]_vars

\* C37: a node that is SUSPECT at incarnation i and is not the local node
\* becomes ALIVE only at an incarnation above i, by a step that emits
\* node.alive and removes its suspect record; and an ALIVE report about it at
\* i or below, from a datagram or a merged entry, leaves its record SUSPECT
\* at i and its suspect record, Timer included, as they were.
C37_SuspectLeavesOnlyByNewerAlive ==
    [][\A name \in DOMAIN nodes_map :
         (/\ ~IsLocal(name, local_node_name')
          /\ nodes_map[name].status = NODE_STATUS_SUSPECT)
         => /\ nodes_map'[name].status = NODE_STATUS_ALIVE
               => /\ nodes_map'[name].incarnation > nodes_map[name].incarnation
                  /\ name \notin DOMAIN suspect_nodes'
                  /\ emitted' = << <<"node.alive", name>> >>
            /\ \/ /\ nodes_map'[name] = nodes_map[name]
                  /\ name \in DOMAIN suspect_nodes'
                  /\ suspect_nodes'[name] = suspect_nodes[name]
               \/ \A incarnation \in 0..nodes_map[name].incarnation,
                     port \in Ports, host \in Hosts, metadata \in Metadata :
                    /\ ~HandleAliveMessage(name, incarnation, host, port, metadata)
                    /\ ~MergeRemoteState(name, incarnation, host, port,
                                         NODE_STATUS_ALIVE, metadata)]_vars

\* the remote node is SUSPECT at incarnation 2 with its Timer armed, and the
\* step that led here, an ALIVE report at 2 or below among them, emitted
\* nothing and left the SUSPECT item in the queue
C37_Witness ==
    /\ local_node_name = NodeName
    /\ "b" \in DOMAIN nodes_map
    /\ nodes_map["b"].status = NODE_STATUS_SUSPECT
    /\ nodes_map["b"].incarnation = 2
    /\ "b" \in DOMAIN suspect_nodes
    /\ suspect_nodes["b"].timer = "armed"
    /\ "b" \in DOMAIN queue
    /\ queue["b"].kind = "SUSPECT"
    /\ emitted = <<>>

----------------------------------------------------------------------------
(* The specification of the full-state exchange: SYNCs served and sent,    *)
(* with the reports and timers that set the scene                          *)

SyncIncs == {1, 2}
Statuses == {NODE_STATUS_ALIVE, NODE_STATUS_SUSPECT, NODE_STATUS_DEAD}

NextSync ==
    \/ local_node_name = None /\ SetLocalNode
    \/ \E name \in Names, incarnation \in SyncIncs, port \in Ports :
         HandleAliveMessage(name, incarnation, TrueHost(name), port, EmptyMeta)
    \/ \E name \in Names, incarnation \in SyncIncs :
         HandleDeadMessage(name, incarnation)
    \/ \E name \in Names, incarnation \in SyncIncs, port \in Ports, status \in Statuses :
         \E metadata \in ReportedMeta(name) :
           HandleSyncMessage(name, incarnation, TrueHost(name), port, status, metadata)
    \/ \E name \in Names, incarnation \in SyncIncs, port \in Ports, status \in Statuses :
         \E metadata \in ReportedMeta(name) :
           HandleTcpClientMessage(name, incarnation, TrueHost(name), port, status, metadata)
    \/ SendLocalState
    \/ \E name \in Names : TimerRun(name)
    \/ \E name \in Names : HandleSuspectTimer(name)

SpecSync == Init /\ [][NextSync]_vars

----------------------------------------------------------------------------
(* Claims about the full-state exchange, checked under SpecSync *)

\* the last step merged a SYNC entry of status DEAD
MergedDead == log' \in {<<[merged |-> NODE_STATUS_DEAD, by |-> side]>> : side \in {"server", "client"}}

\* C14: merging a SYNC entry whose status is DEAD makes no node DEAD: the
\* entry has the effect of on_node_suspect at the same name and incarnation,
\* so a node other than the local node that is ALIVE at an incarnation not
\* above the reported one becomes SUSPECT at the reported incarnation, with a
\* suspicion record.
C14_MergedDeadIsSuspect ==
    [][MergedDead =>
        /\ \A n \in DOMAIN nodes_map' :
             nodes_map'[n].status = NODE_STATUS_DEAD
             => n \in DOMAIN nodes_map /\ nodes_map[n].status = NODE_STATUS_DEAD
        /\ \A name \in Names, incarnation \in SyncIncs, metadata \in Metadata :
             (/\ \E port \in Ports, side \in {"server", "client"} :
                   IF side = "server"
                   THEN HandleSyncMessage(name, incarnation, TrueHost(name), port,
                                          NODE_STATUS_DEAD, metadata)
                   ELSE HandleTcpClientMessage(name, incarnation, TrueHost(name), port,
                                               NODE_STATUS_DEAD, metadata)
              /\ name \in DOMAIN nodes_map
              /\ ~IsLocal(name, local_node_name)
              /\ nodes_map[name].status = NODE_STATUS_ALIVE
              /\ incarnation >= nodes_map[name].incarnation)
             => /\ nodes_map'[name].status = NODE_STATUS_SUSPECT
                /\ nodes_map'[name].incarnation = incarnation
                /\ name \in DOMAIN suspect_nodes']_vars

\* the last step merged a DEAD entry about an ALIVE node, which became SUSPECT
C14_Witness ==
    /\ log = <<[merged |-> NODE_STATUS_DEAD, by |-> "server"]>>
    /\ \E n \in DOMAIN nodes_map :
         /\ nodes_map[n].status = NODE_STATUS_SUSPECT
         /\ emitted = << <<"node.suspect", n>> >>

\* C15: the side that accepted the connection merges a received SYNC and
\* writes back exactly one SYNC, holding its state after the merge; the side
\* that opened the connection writes one SYNC, merges the reply and writes
\* nothing: an exchange is two SYNCs and no more.
C15_SyncExchangeIsTwoMessages ==
    [][/\ (\E status \in Statuses : log' = <<[merged |-> status, by |-> "server"]>>)
          => /\ Len(sent') = 1
             /\ sent'[1] = SyncMessage(nodes_map')
       /\ (\E status \in Statuses : log' = <<[merged |-> status, by |-> "client"]>>)
          => sent' = <<>>
       /\ SendLocalState => sent' = <<SyncMessage(nodes_map)>>]_vars

\* the client side has just merged an ALIVE entry of a reply, learning of a
\* node, and wrote nothing
C15_Witness ==
    /\ log = <<[merged |-> NODE_STATUS_ALIVE, by |-> "client"]>>
    /\ sent = <<>>
    /\ \E n \in DOMAIN nodes_map :
         ~IsLocal(n, local_node_name) /\ emitted = << <<"node.alive", n>> >>

----------------------------------------------------------------------------
(* Claims about the probes, checked under SpecProbe *)

\* the step resumes the direct probe i with outcome r of its waiter
DirectProbeResumes(i, r) ==
    /\ probes[i].kind = "direct"
    /\ probes[i].pc \in {"waiting", "cancelling"}
    /\ probes'[i].pc = "done"
    /\ probes'[i].result = r

\* C5: if the target of a probe is SUSPECT when the probe's waiter, resolved
\* with true by an ACK, hands the result to the probe, the target is restored
\* to ALIVE and its suspicion record is removed.
C5_AckRevivesSuspect ==
    [][\A i \in DOMAIN probes :
         (/\ DirectProbeResumes(i, "True")
          /\ nodes_map[probes[i].target].status = NODE_STATUS_SUSPECT)
         => /\ nodes_map'[probes[i].target].status = NODE_STATUS_ALIVE
            /\ probes[i].target \notin DOMAIN suspect_nodes']_vars

\* C6: when the waiter of a direct probe times out, on_node_suspect is applied
\* to the target at its current incarnation, so that an ALIVE target becomes
\* SUSPECT (indirect probing follows).
C6_TimeoutSuspects ==
    [][\A i \in DOMAIN probes :
         (/\ DirectProbeResumes(i, "TimeoutError")
          /\ nodes_map[probes[i].target].status = NODE_STATUS_ALIVE)
         => /\ nodes_map'[probes[i].target].status = NODE_STATUS_SUSPECT
            /\ probes[i].target \in DOMAIN suspect_nodes'
            /\ probes'[i].error = "none"]_vars

\* C7: a NACK that resolved the waiter of a direct probe with false is handled
\* as a failed probe: an ALIVE target becomes SUSPECT and the probe is not
\* aborted by an exception.
C7_NackSuspects ==
    [][\A i \in DOMAIN probes :
         (/\ DirectProbeResumes(i, "False")
          /\ nodes_map[probes[i].target].status = NODE_STATUS_ALIVE)
         => /\ probes'[i].error = "none"
            /\ nodes_map'[probes[i].target].status = NODE_STATUS_SUSPECT]_vars

\* the seqs of the probes suspended on their waiter
Awaited == {probes[i].seq : i \in {j \in DOMAIN probes : probes[j].pc \in {"waiting", "cancelling"}}}

\* C8: the seqs of the probes (direct and relay) are pairwise distinct; a
\* probe awaiting its result has its waiter registered under its seq, these
\* are the only registered waiters, and a probe that received its outcome
\* (ACK, NACK or timeout) has none.
C8_OneWaiterPerOutstandingProbe ==
    /\ \A i, j \in DOMAIN probes :
         (i # j /\ probes[i].seq # 0) => probes[i].seq # probes[j].seq
    /\ DOMAIN probe_status = Awaited
    /\ \A i \in DOMAIN probes :
         probes[i].pc = "done" => probes[i].seq \notin DOMAIN probe_status

C8_Witness ==
    \E i, j \in DOMAIN probes :
        /\ probes[i].kind = "direct" /\ probes[i].pc = "done"
        /\ probes[j].kind = "relay" /\ probes[j].pc = "waiting"
        /\ DOMAIN probe_status = {probes[j].seq}

\* C9: the first write to the future of a waiter (the result set by an ACK or
\* a NACK, or the cancellation wait_for performs on the timeout) is its
\* outcome: no later ACK, NACK or timeout changes it, the probe receives it,
\* and an ACK or NACK for a future already written changes neither the
\* probes nor the membership state.
C9_FirstWriterWins ==
    [][/\ \A seq \in DOMAIN probe_status :
            (probe_status[seq] # "pending" /\ seq \in DOMAIN probe_status')
            => probe_status'[seq] = probe_status[seq]
       /\ \A i \in DOMAIN probes :
            (probes[i].pc \in {"waiting", "cancelling"} /\ probes'[i].pc = "done")
            => /\ probe_status[probes[i].seq] # "pending"
               /\ probes'[i].result = WaitResult(probe_status[probes[i].seq])
       /\ \A seq \in DOMAIN probe_status :
            (/\ probe_status[seq] # "pending"
             /\ HandleAckMessage(seq) \/ HandleNackMessage(seq))
            => UNCHANGED <<probes, nodes, nodes_map, suspect_nodes, queue>>]_vars

\* the timeout fired and an ACK was handled for the same probe, which ended
\* with the ACK's result while a second probe was resolved by a NACK
C9_Witness ==
    \E i, j \in DOMAIN probes :
        /\ probes[i].pc = "done" /\ probes[i].released /\ probes[i].result = "True"
        /\ probes[j].pc = "waiting" /\ probe_status[probes[j].seq] = "False"

\* C10: an ACK whose seq has no registered waiter, such as one that arrives
\* after its probe timed out, is dropped: the waiter map, the nodes with
\* their status and incarnation, and the broadcast queue are unchanged.
C10_UnknownAckDropped ==
    [][\A seq \in Seqs :
         (HandleAckMessage(seq) /\ seq \notin DOMAIN probe_status)
         => UNCHANGED <<probe_status, probes, nodes, nodes_map, suspect_nodes, queue>>]_vars

\* the last step dropped an ACK for the seq of a probe that had timed out
C10_Witness ==
    \E i \in DOMAIN probes :
        /\ probes[i].pc = "done" /\ probes[i].result = "TimeoutError"
        /\ log = <<[unknown |-> "ACK", seq |-> probes[i].seq]>>

\* the step resumes the relay probe i with outcome r of its waiter
RelayResumes(i, r) ==
    /\ probes[i].kind = "relay"
    /\ probes[i].pc \in {"waiting", "cancelling"}
    /\ probes'[i].pc = "done"
    /\ probes'[i].result = r

\* C11: a relay serving PING-REQ(s) pings the target under a fresh seq of its
\* own and, when that PING is ACKed, sends one ACK carrying s to the sender
\* of the PING-REQ; an ACK(s) handled by a process touches no waiter but s.
C11_RelayForwardsOriginalSeq ==
    [][/\ \A req_seq \in Seqs, target \in ProbeTargets :
            HandlePingRequestMessage(req_seq, target)
            => /\ sent'[1].msg.kind = "PING"
               /\ sent'[1].msg.seq = probe_seq'
               /\ probe_seq' \notin {probes[j].seq : j \in DOMAIN probes}
       /\ \A i \in DOMAIN probes :
            RelayResumes(i, "True")
            => /\ Len(sent') = 1
               /\ sent'[1].msg.kind = "ACK"
               /\ sent'[1].msg.seq = probes[i].req_seq
               /\ sent'[1].msg.to = "sender"
       /\ \A seq \in Seqs :
            HandleAckMessage(seq)
            => /\ DOMAIN probe_status' = DOMAIN probe_status
               /\ \A t \in DOMAIN probe_status \ {seq} :
                    probe_status'[t] = probe_status[t]]_vars

\* a relay whose own seq differs from the seq of the PING-REQ has just
\* forwarded the ACK
C11_Witness ==
    \E i \in DOMAIN probes :
        /\ probes[i].kind = "relay" /\ probes[i].pc = "done"
        /\ probes[i].result = "True"
        /\ probes[i].seq # probes[i].req_seq
        /\ Len(sent) = 1
        /\ sent[1].msg.kind = "ACK" /\ sent[1].msg.seq = probes[i].req_seq

\* C12: a relay serving PING-REQ(s) whose own PING is not ACKed within the
\* probe timeout sends NACK(s) to the sender of the PING-REQ.
C12_RelayTimeoutForwardsNack ==
    [][\A i \in DOMAIN probes :
         RelayResumes(i, "TimeoutError")
         => /\ Len(sent') = 1
            /\ sent'[1].msg.kind = "NACK"
            /\ sent'[1].msg.seq = probes[i].req_seq]_vars

Eligible ==
    {n \in DOMAIN nodes_map :
       ~IsLocal(n, local_node_name) /\ nodes_map[n].status # NODE_STATUS_DEAD}

\* the k-th position (0-based, k = 0, 1, ...) a tick looks at: from the cursor
\* on, back to 0 after the last node
Position(k) == ((probe_index % Len(nodes)) + k) % Len(nodes)

\* C20: a probe tick starts at most one probe; the node it probes is neither
\* the local node nor DEAD when it is picked; it is the first such node from
\* the cursor on, the cursor going back to 0 after the last node of the list,
\* and the cursor is left behind it; the tick starts exactly one probe if
\* there is such a node and none otherwise.
C20_TickProbesNextEligible ==
    [][DoProbe =>
        IF Eligible = {}
        THEN probes' = probes
        ELSE /\ Len(probes') = Len(probes) + 1
             /\ \A i \in DOMAIN probes : probes'[i] = probes[i]
             /\ LET probe == probes'[Len(probes')]
                IN /\ probe.kind = "direct" /\ probe.pc = "created"
                   /\ probe.target \in Eligible
                   /\ \E k \in 0..(Len(nodes) - 1) :
                        /\ nodes[Position(k) + 1] = probe.target
                        /\ \A j \in 0..(k - 1) : nodes[Position(j) + 1] \notin Eligible
                        /\ probe_index' = Position(k) + 1]_vars

\* a tick has just picked the first node of the list after the cursor had
\* reached its end, passing over the local node or a DEAD one on another tick
C20_Witness ==
    /\ Len(nodes) = 2
    /\ probe_index = 1
    /\ Len(probes) = 2
    /\ probes[1].kind = "direct" /\ probes[2].kind = "direct"
    /\ probes[2].pc = "created"
    /\ probes[2].target = nodes[1]
    /\ \E n \in DOMAIN nodes_map : nodes_map[n].status # NODE_STATUS_ALIVE

----------------------------------------------------------------------------
(* The specification of the piggy-backed gossip: a cluster of some size,   *)
(* freshly pushed items in the broadcast queue, and datagrams sent          *)

GossipNodes == <<"a", "b", "c", "d", "e", "f", "g", "h", "i", "j">>
GossipSizes == {9, 10}
GossipMultis == {1, 4}
GossipSubjects == {"a", "b", "c", "d"}

\* a started cluster of n nodes, all ALIVE, whose queue holds only the items
\* of the nodes of S, pushed by their last transition and not yet sent
InitGossip ==
    \E n \in GossipSizes, m \in GossipMultis, S \in (SUBSET GossipSubjects) \ {{}} :
      /\ local_node_name = NodeName
      /\ leaving = FALSE
      /\ local_node_seq = 1
      /\ nodes = SubSeq(GossipNodes, 1, n)
      /\ nodes_map = [name \in {GossipNodes[i] : i \in 1..n} |->
                        [Node(TrueHost(name), LocalPort) EXCEPT
                           !.incarnation = 1, !.status = NODE_STATUS_ALIVE]]
      /\ suspect_nodes = <<>>
      /\ timer_tasks = [name \in Names |-> 0]
      /\ queue = [name \in S |-> [kind |-> "ALIVE", incarnation |-> 1, transmits |-> 0]]
      /\ emitted = <<>>
      /\ probe_seq = 0
      /\ probe_status = <<>>
      /\ probes = <<>>
      /\ probe_index = 0
      /\ sent = <<>>
      /\ log = <<>>
      /\ start_pc = "idle"
      /\ udp_task = "pending"
      /\ udp_reads = 1
      /\ server = "listening"
      /\ servers = 1
      /\ probe_schedule = "running"
      /\ sync_schedule = "running"
      /\ retransmit_multi = m
      /\ suspicion_min_timeout_multi = SuspicionMinTimeoutMulti
      /\ gossiped = [name \in S |-> 0]
      /\ timer_handle = 0
      /\ timer_started = FALSE
      /\ timer_time = 1
      /\ loop_handles = <<>>
      /\ timer_calls = 0

\* _send_udp_message for a message of kind `kind` to node `to`, the
\* datagrams that carry an item being counted per subject
SendGossip(kind, to) ==
    /\ SendUdpMessage([kind |-> kind, seq |-> 0, node |-> to, to |-> to])
    /\ gossiped' = [name \in DOMAIN gossiped |->
                      IF \E g \in sent'[1].gossip : g.subject = name
                      THEN gossiped[name] + 1 ELSE gossiped[name]]
    /\ emitted' = <<>>
    /\ log' = <<>>
    /\ UNCHANGED <<start_pc, udp_task, udp_reads, server, servers,
                   probe_schedule, sync_schedule, retransmit_multi,
                   suspicion_min_timeout_multi, tmvars>>
    /\ UNCHANGED clvars
    /\ UNCHANGED <<local_node_name, leaving, local_node_seq, nodes, nodes_map,
                   suspect_nodes, timer_tasks>>

NextGossip ==
    \E kind \in {"PING", "ACK"}, to \in {"b", "c"} : SendGossip(kind, to)

SpecGossip == InitGossip /\ [][NextGossip]_vars

----------------------------------------------------------------------------
(* Cluster: a datagram of several framed messages (cluster.py).  The frames *)
(* are ALIVE reports about the remote node, ACKs, and frames whose body     *)
(* MessageSerializer.decode rejects with MessageDecodeError.                *)


BatchNode == "b"
BatchIncs == {1, 2}
BatchSeqs == {1}

Frame(kind, incarnation, seq) == [kind |-> kind, incarnation |-> incarnation, seq |-> seq]

Frames ==
    {Frame("ALIVE", i, 0) : i \in BatchIncs}
      \cup {Frame("ACK", 0, seq) : seq \in BatchSeqs}
      \cup {Frame("UNDECODABLE", 0, 0)}

Batches == UNION {[1..n -> Frames] : n \in 1..MaxFrames}

\* what _handle_udp_data reads and writes while it handles a datagram
BatchState ==
    [nodes |-> nodes, nodes_map |-> nodes_map, suspect_nodes |-> suspect_nodes,
     queue |-> queue, probe_status |-> probe_status, emitted |-> <<>>, log |-> <<>>]

\* a loop that gives the datagram up at the first frame that fails
NextFrame_Aborts(frames, k) == Len(frames) + 1

\* the frame _handle_udp_data reads after frame k failed: _decode_message
\* returned None (`continue`) or _handle_udp_message caught the exception of
\* the handler and returned
NextFrame(frames, k) == k + 1

\* _handle_ack_message on future: Future.set_result raises InvalidStateError
\* unless the future is pending
AckRaises(st, seq) ==
    seq \in DOMAIN st.probe_status /\ st.probe_status[seq] # "pending"

\* frame k of the datagram fails in state st
FrameFails(st, f) ==
    \/ f.kind = "UNDECODABLE"
    \/ f.kind = "ACK" /\ AckRaises(st, f.seq)

\* _handle_udp_message for a frame that does not fail
FrameResult(st, f, lname, random_index) ==
    IF f.kind = "ALIVE"
    THEN LET r == AliveResult(st, BatchNode, f.incarnation, TrueHost(BatchNode),
                              LocalPort, EmptyMeta, lname, random_index)
         IN [st EXCEPT !.nodes = r.nodes, !.nodes_map = r.nodes_map,
                       !.suspect_nodes = r.suspect_nodes, !.queue = r.queue,
                       !.emitted = st.emitted \o r.emitted]
    ELSE IF f.seq \in DOMAIN st.probe_status
    THEN [st EXCEPT !.probe_status = Put(st.probe_status, f.seq,
                                         SetResult(st.probe_status[f.seq], "True"))]
    ELSE [st EXCEPT !.log = Append(@, [unknown |-> "ACK", seq |-> f.seq])]

\* the `while True` of _handle_udp_data from frame k on
RECURSIVE UdpDataResult(_, _, _, _, _)
UdpDataResult(st, frames, k, lname, random_index) ==
    IF k > Len(frames) THEN st
    ELSE IF FrameFails(st, frames[k])
    THEN UdpDataResult(
           [st EXCEPT !.log = Append(@, [error |-> IF frames[k].kind = "UNDECODABLE"
                                                  THEN "Error decoding message"
                                                  ELSE "Error dispatching UDP message",
                                         frame |-> k])],
           frames, NextFrame(frames, k), lname, random_index)
    ELSE UdpDataResult(FrameResult(st, frames[k], lname, random_index),
                       frames, k + 1, lname, random_index)

\* UDPListener._handle_data -> _handle_udp_data: the frames of a received
\* datagram are read, decoded and dispatched one after the other; the
\* listener has posted its next receive
HandleUdpData(frames) ==
    /\ Receiving
    /\ \E random_index \in RandomIndexes(State, BatchNode) :
         LET r == UdpDataResult(BatchState, frames, 1, local_node_name, random_index)
         IN /\ nodes' = r.nodes
            /\ nodes_map' = r.nodes_map
            /\ suspect_nodes' = r.suspect_nodes
            /\ queue' = r.queue
            /\ probe_status' = r.probe_status
            /\ emitted' = r.emitted
            /\ log' = r.log
    /\ sent' = <<>>
    /\ UNCHANGED <<local_node_name, leaving, local_node_seq, timer_tasks>>
    /\ UNCHANGED <<probe_seq, probes, probe_index>>
    /\ UNCHANGED lcvars

NextBatch ==
    \/ StartListeners
    \/ Start
    \/ Stop
    \/ \E frames \in Batches : HandleUdpData(frames)
    \/ probe_schedule = "running" /\ probes = <<>> /\ DoProbe
    \/ \E i \in 1..MaxProbes : ProbeNode(i)
    \/ \E i \in 1..MaxProbes : WaitTimeout(i)
    \/ \E i \in 1..MaxProbes : WaitCancel(i)
    \/ \E i \in 1..MaxProbes : WaitDone(i)

SpecBatch == Init /\ [][NextBatch]_vars

\* what a datagram leaves behind, its log lines apart
BatchCore(r) == [r EXCEPT !.log = <<>>]

\* C25: a frame that fails, in decoding or in its handler, ends neither the
\* datagram nor the listener: for every datagram and every frame of it that
\* fails, the datagram leaves what the frames before it followed by the
\* frames after it leave, in that order; and after a datagram with a failing
\* frame the listener has a receive pending.
C25_FailingFrameDoesNotAbortBatch ==
    /\ \A frames \in Batches, k \in 1..MaxFrames :
         \A random_index \in RandomIndexes(State, BatchNode) :
           k <= Len(frames) =>
             LET before == UdpDataResult(BatchState, SubSeq(frames, 1, k - 1), 1,
                                         local_node_name, random_index)
                 after == UdpDataResult(before, SubSeq(frames, k + 1, Len(frames)), 1,
                                        local_node_name, random_index)
                 whole == UdpDataResult(BatchState, frames, 1, local_node_name,
                                        random_index)
             IN FrameFails(before, frames[k]) => BatchCore(whole) = BatchCore(after)
    /\ (\E i \in DOMAIN log : "frame" \in DOMAIN log[i]) => Receiving

\* a datagram whose first frame failed has just been handled, a later frame
\* of it discovered the remote node, and the listener is receiving
C25_Witness ==
    /\ Len(log) > 0
    /\ "frame" \in DOMAIN log[1]
    /\ log[1].frame = 1
    /\ emitted = << <<"node.alive", BatchNode>> >>
    /\ BatchNode \in DOMAIN nodes_map
    /\ nodes_map[BatchNode].status = NODE_STATUS_ALIVE
    /\ Receiving

----------------------------------------------------------------------------
(* The specification of the suspicion records: a started cluster of some   *)
(* size and some suspicion_min_timeout_multi, whose nodes are suspected,   *)
(* revived and declared dead                                               *)

ConfirmSizes == 1..5
ConfirmMultis == 0..5
ConfirmNodes == {"b", "c"}
ConfirmIncs == {1, 2}

InitConfirm ==
    \E n \in ConfirmSizes, multi \in ConfirmMultis :
      /\ local_node_name = NodeName
      /\ leaving = FALSE
      /\ local_node_seq = 1
      /\ nodes = SubSeq(GossipNodes, 1, n)
      /\ nodes_map = [name \in {GossipNodes[i] : i \in 1..n} |->
                        [Node(TrueHost(name), LocalPort) EXCEPT
                           !.incarnation = 1, !.status = NODE_STATUS_ALIVE]]
      /\ suspect_nodes = <<>>
      /\ timer_tasks = [name \in Names \cup ConfirmNodes |-> 0]
      /\ queue = <<>>
      /\ emitted = <<>>
      /\ probe_seq = 0
      /\ probe_status = <<>>
      /\ probes = <<>>
      /\ probe_index = 0
      /\ sent = <<>>
      /\ log = <<>>
      /\ start_pc = "idle"
      /\ udp_task = "pending"
      /\ udp_reads = 1
      /\ server = "listening"
      /\ servers = 1
      /\ probe_schedule = "running"
      /\ sync_schedule = "running"
      /\ retransmit_multi = RetransmitMulti
      /\ suspicion_min_timeout_multi = multi
      /\ gossiped = <<>>
      /\ timer_handle = 0
      /\ timer_started = FALSE
      /\ timer_time = 1
      /\ loop_handles = <<>>
      /\ timer_calls = 0

NextConfirm ==
    \/ \E name \in ConfirmNodes, incarnation \in ConfirmIncs :
         HandleSuspectMessage(name, incarnation)
    \/ \E name \in ConfirmNodes, incarnation \in ConfirmIncs, port \in Ports :
         HandleAliveMessage(name, incarnation, TrueHost(name), port, EmptyMeta)
    \/ \E name \in ConfirmNodes : TimerRun(name)
    \/ \E name \in ConfirmNodes : HandleSuspectTimer(name)

SpecConfirm == InitConfirm /\ [][NextConfirm]_vars

\* the number of confirmations expected of a cluster of n nodes: the greater
\* of 0 and multi - 2, and 0 when n - 2 is less than that
ClaimedConfirmations(n, multi) ==
    LET k == IF multi - 2 > 0 THEN multi - 2 ELSE 0
    IN IF n - 2 < k THEN 0 ELSE k

\* C26: the k of a suspect record, computed on entry to SUSPECT in a cluster
\* of n nodes, is max(0, multi - 2), 0 when n - 2 < k, never negative, and
\* the record's Timer is armed with max_timeout when k < 1 and with
\* min_timeout otherwise.
C26_ExpectedConfirmations ==
    [][\A name \in DOMAIN suspect_nodes' :
         name \notin DOMAIN suspect_nodes =>
           /\ suspect_nodes'[name].k =
                ClaimedConfirmations(Len(nodes), suspicion_min_timeout_multi)
           /\ suspect_nodes'[name].k >= 0
           /\ suspect_nodes'[name].timeout =
                IF suspect_nodes'[name].k < 1 THEN "max_timeout" ELSE "min_timeout"]_vars

\* C38: while a node stays SUSPECT its suspect record is the one created on
\* entry: a step that leaves it SUSPECT, a SUSPECT report accepted at the
\* same or a higher incarnation among them, keeps the record with its k and
\* its timeout, and the Timer of the record changes only by firing; it is
\* never armed anew.
C38_SuspectAgainKeepsTheTimer ==
    [][\A name \in DOMAIN nodes_map :
         (/\ nodes_map[name].status = NODE_STATUS_SUSPECT
          /\ nodes_map'[name].status = NODE_STATUS_SUSPECT)
         => /\ name \in DOMAIN suspect_nodes
            /\ name \in DOMAIN suspect_nodes'
            /\ suspect_nodes'[name].k = suspect_nodes[name].k
            /\ suspect_nodes'[name].timeout = suspect_nodes[name].timeout
            /\ \/ suspect_nodes'[name].timer = suspect_nodes[name].timer
               \/ /\ suspect_nodes[name].timer = "armed"
                  /\ suspect_nodes'[name].timer = "fired"
                  /\ TimerRun(name)]_vars

\* node b, SUSPECT since the cluster had two nodes (its record was computed
\* for that size), is SUSPECT at incarnation 2 in a cluster that has grown
\* to three, for which a new record would be computed differently; the
\* SUSPECT at incarnation 2 is queued and the step emitted nothing
C38_Witness ==
    /\ Len(nodes) = 3
    /\ "b" \in DOMAIN nodes_map
    /\ nodes_map["b"].status = NODE_STATUS_SUSPECT
    /\ nodes_map["b"].incarnation = 2
    /\ "b" \in DOMAIN suspect_nodes
    /\ suspect_nodes["b"] # SuspectNode(Len(nodes), suspicion_min_timeout_multi)
    /\ suspect_nodes["b"].timer = "armed"
    /\ "b" \in DOMAIN queue
    /\ queue["b"] = [kind |-> "SUSPECT", incarnation |-> 2, transmits |-> 0]
    /\ emitted = <<>>

----------------------------------------------------------------------------
(* Timer (timer.py) on its own: one Timer whose start, reset and stop are  *)
(* called in any order, and the loop that runs its handles                 *)

Durations == {1, 2}

\* loop.call_later(delay, self._run): a new handle, pending
CallLater(handles, delay) == Append(handles, [delay |-> delay, state |-> "pending"])

\* a cancel that leaves the handle pending
Cancel_Noop(handles, h) == handles

\* Handle.cancel(): a pending handle will not run; one that ran stays as it is
Cancel(handles, h) ==
    [handles EXCEPT ![h].state = IF @ = "pending" THEN "cancelled" ELSE @]

\* the handles after Timer.stop(): `if self._handle is not None: cancel()`
Stopped(handles, h) == IF h # 0 THEN Cancel(handles, h) ELSE handles

\* Timer.start(): `assert self._handle is None`, then call_later(self.time)
TimerStart ==
    /\ \/ /\ timer_handle # 0
          /\ log' = <<[error |-> "AssertionError", target |-> "Timer.start"]>>
          /\ UNCHANGED tmvars
       \/ /\ timer_handle = 0
          /\ Len(loop_handles) < MaxHandles
          /\ timer_started' = TRUE
          /\ loop_handles' = CallLater(loop_handles, timer_time)
          /\ timer_handle' = Len(loop_handles) + 1
          /\ log' = <<>>
          /\ UNCHANGED <<timer_time, timer_calls>>
    /\ sent' = <<>>
    /\ UNCHANGED <<nmvars, clvars, cfvars>>

\* Timer.stop(): the handle is cancelled if there is one, and forgotten
TimerStop ==
    /\ loop_handles' = Stopped(loop_handles, timer_handle)
    /\ timer_handle' = 0
    /\ UNCHANGED <<timer_started, timer_time, timer_calls>>
    /\ sent' = <<>>
    /\ log' = <<>>
    /\ UNCHANGED <<nmvars, clvars, cfvars>>

\* Timer.reset(time): stop(), self.time = time, start()
TimerReset(time) ==
    /\ Len(loop_handles) < MaxHandles
    /\ loop_handles' = CallLater(Stopped(loop_handles, timer_handle), time)
    /\ timer_handle' = Len(loop_handles) + 1
    /\ timer_time' = time
    /\ timer_started' = TRUE
    /\ UNCHANGED timer_calls
    /\ sent' = <<>>
    /\ log' = <<>>
    /\ UNCHANGED <<nmvars, clvars, cfvars>>

\* the loop runs handle h: Timer._run calls func()
TimerFire(h) ==
    /\ h \in DOMAIN loop_handles
    /\ loop_handles[h].state = "pending"
    /\ loop_handles' = [loop_handles EXCEPT ![h].state = "run"]
    /\ timer_calls' = timer_calls + 1
    /\ UNCHANGED <<timer_handle, timer_started, timer_time>>
    /\ sent' = <<>>
    /\ log' = <<>>
    /\ UNCHANGED <<nmvars, clvars, cfvars>>

NextTimer ==
    \/ TimerStart
    \/ TimerStop
    \/ \E time \in Durations : TimerReset(time)
    \/ \E h \in 1..MaxHandles : TimerFire(h)

SpecTimer == Init /\ [][NextTimer]_vars

\* the handles of the loop that are still to run
Pending(handles) == {h \in DOMAIN handles : handles[h].state = "pending"}

\* C27: once start() was called on the Timer, whether its handle is pending,
\* has run or was stopped, a further start() fails its assertion and gives
\* the loop nothing to run.
C27_StartOnlyOnce ==
    [][(timer_started /\ TimerStart) =>
         /\ loop_handles' = loop_handles
         /\ log' = <<[error |-> "AssertionError", target |-> "Timer.start"]>>]_vars

\* C28: while the Timer holds no handle nothing of it is pending, and only
\* the handle it holds ever runs, so after stop() the callback is not called
\* until the Timer is armed again; stop() on a Timer that holds no pending
\* handle (stopped, never started, or run) changes neither the loop's
\* handles nor the calls nor the duration; reset(time) leaves exactly one
\* pending handle, of delay `time`, held by the Timer.
C28_StopCancelsAndResetRearms ==
    [][/\ timer_handle' = 0 => Pending(loop_handles') = {}
       /\ timer_calls' # timer_calls =>
            /\ timer_handle # 0
            /\ loop_handles[timer_handle].state = "pending"
            /\ loop_handles'[timer_handle].state = "run"
       /\ (TimerStop /\ (timer_handle = 0 \/ loop_handles[timer_handle].state # "pending"))
            => UNCHANGED <<loop_handles, timer_calls, timer_time>>
       /\ \A time \in Durations :
            TimerReset(time) =>
              /\ Pending(loop_handles') = {timer_handle'}
              /\ loop_handles'[timer_handle'].delay = time
              /\ timer_time' = time]_vars

\* an armed Timer was stopped before its handle ran, by stop() or by the
\* stop() of reset, and reset to the other duration: the first handle is
\* cancelled, the second is the only one pending, and the callback was not
\* called
C28_Witness ==
    /\ Len(loop_handles) = 2
    /\ loop_handles[1] = [delay |-> 1, state |-> "cancelled"]
    /\ loop_handles[2] = [delay |-> 2, state |-> "pending"]
    /\ timer_handle = 2
    /\ timer_time = 2
    /\ timer_calls = 0

----------------------------------------------------------------------------
(* The specification of start and stop: one remote node, its ALIVE report, *)
(* the ticks and the direct probes, between start() and stop() calls       *)

NextLife ==
    \/ StartListeners
    \/ StartServerFails
    \/ Start
    \/ Stop
    \/ \E name \in ProbeTargets, incarnation \in ProbeIncs, port \in Ports :
         /\ Receiving
         /\ HandleAliveMessage(name, incarnation, TrueHost(name), port, EmptyMeta)
    \/ probe_schedule = "running" /\ DoProbe
    \/ \E i \in 1..MaxProbes : ProbeNode(i)
    \/ \E seq \in Seqs : Receiving /\ HandleAckMessage(seq)
    \/ \E i \in 1..MaxProbes : WaitTimeout(i)
    \/ \E i \in 1..MaxProbes : WaitCancel(i)
    \/ \E i \in 1..MaxProbes : WaitDone(i)

SpecLife == Init /\ [][NextLife]_vars

----------------------------------------------------------------------------
(* Claims about start and stop, checked under SpecLife *)

\* C22: when stop() has completed, the seq-to-waiter map is empty.
C22_StopLeavesNoWaiter ==
    [][Stop => probe_status' = <<>>]_vars

\* the cluster is started: start() has completed and stop() was not called
Started == start_pc = "idle" /\ server = "listening"

\* C23: start() on a started cluster changes nothing: the membership, the
\* local incarnation, the broadcast queue, the receives pending on the UDP
\* socket, the servers and the schedules stay as they were.
C23_StartIsIdempotent ==
    [][Started /\ StartListeners =>
         /\ UNCHANGED <<nodes, nodes_map, local_node_seq, queue>>
         /\ UNCHANGED <<udp_reads, servers, probe_schedule, sync_schedule>>]_vars

----------------------------------------------------------------------------
(* Cluster: PINGs received (cluster.py), with the reports that fill the    *)
(* broadcast queue the ACK piggy-backs from                                 *)

PingSeqs == {1, 2}
PingAddrs == {"b:7946", "nat:40000"}   \* sender_addr of a PING, source of its datagram

\* a reply sent to the source address of the datagram
ReplyAddress_Source(sender_addr, client_addr) == client_addr

\* _handle_ping_message: the ACK goes to msg.sender_addr
ReplyAddress(sender_addr, client_addr) == sender_addr

\* _handle_ping_message(msg, client_addr); Cluster.local_node_name is
\* config.node_name, set or not the local node of the NodeManager
HandlePingMessage(seq, node, sender_addr, client_addr) ==
    /\ IF node # NodeName
       THEN /\ sent' = <<>>
            /\ UNCHANGED queue
       ELSE SendUdpMessage([kind |-> "ACK", seq |-> seq, sender |-> NodeName,
                            to |-> ReplyAddress(sender_addr, client_addr)])
    /\ emitted' = <<>>
    /\ log' = <<>>
    /\ UNCHANGED <<local_node_name, leaving, local_node_seq, nodes, nodes_map,
                   suspect_nodes, timer_tasks>>
    /\ UNCHANGED clvars
    /\ UNCHANGED lcvars

NextPing ==
    \/ \E name \in Names, incarnation \in Incs, port \in Ports :
         \E host \in ReportedHosts(name), metadata \in ReportedMeta(name) :
           HandleAliveMessage(name, incarnation, host, port, metadata)
    \/ SetLocalNode
    \/ \E seq \in PingSeqs, node \in Names, sender_addr \in PingAddrs,
          client_addr \in PingAddrs :
         HandlePingMessage(seq, node, sender_addr, client_addr)

SpecPing == Init /\ [][NextPing]_vars

\* C34: a PING for another node is answered by nothing and changes nothing;
\* a PING for the local name is answered by one datagram, an ACK of the
\* PING's seq addressed to the sender_addr the PING carries, whatever the
\* source address of its datagram.
C34_PingAnsweredByOneAck ==
    [][\A seq \in PingSeqs, node \in Names, sender_addr \in PingAddrs,
          client_addr \in PingAddrs :
         HandlePingMessage(seq, node, sender_addr, client_addr)
         => IF node # NodeName
            THEN /\ sent' = <<>>
                 /\ emitted' = <<>>
                 /\ UNCHANGED <<local_node_name, leaving, local_node_seq,
                                nodes, nodes_map, suspect_nodes, timer_tasks,
                                queue, clvars>>
            ELSE /\ Len(sent') = 1
                 /\ sent'[1].msg.kind = "ACK"
                 /\ sent'[1].msg.seq = seq
                 /\ sent'[1].msg.to = sender_addr]_vars

\* an ACK of seq 2 has just been sent to the address inside the PING, with
\* the ALIVE of a known node piggy-backed
C34_Witness ==
    /\ Len(sent) = 1
    /\ sent[1].msg.kind = "ACK"
    /\ sent[1].msg.seq = 2
    /\ sent[1].msg.to = "b:7946"
    /\ sent[1].gossip # {}

----------------------------------------------------------------------------
(* The probe ticks over a membership that stands still: a list of up to    *)
(* four nodes in any order, any statuses, the cursor anywhere              *)

WindowNodes == {"a", "b", "c", "d"}

\* the lists _nodes can be: the local node and some others, each once
WindowLists ==
    {s \in UNION {[1..n -> WindowNodes] : n \in 1..Cardinality(WindowNodes)} :
       /\ \E i \in DOMAIN s : s[i] = NodeName
       /\ \A i, j \in DOMAIN s : s[i] = s[j] => i = j}

InitWindow ==
    \E list \in WindowLists :
      \E status \in [{list[i] : i \in DOMAIN list} \ {NodeName} ->
                       {NODE_STATUS_ALIVE, NODE_STATUS_SUSPECT, NODE_STATUS_DEAD}],
         index \in 0..Len(list) :
        /\ local_node_name = NodeName
        /\ leaving = FALSE
        /\ local_node_seq = 1
        /\ nodes = list
        /\ nodes_map = [name \in {list[i] : i \in DOMAIN list} |->
                          [Node(TrueHost(name), LocalPort) EXCEPT
                             !.incarnation = 1,
                             !.status = IF name = NodeName THEN NODE_STATUS_ALIVE
                                        ELSE status[name]]]
        /\ suspect_nodes = [name \in {n \in DOMAIN status :
                                        status[n] = NODE_STATUS_SUSPECT} |->
                              SuspectNode(Len(list), SuspicionMinTimeoutMulti)]
        /\ timer_tasks = [name \in WindowNodes |-> 0]
        /\ queue = <<>>
        /\ emitted = <<>>
        /\ probe_seq = 0
        /\ probe_status = <<>>
        /\ probes = <<>>
        /\ probe_index = index
        /\ sent = <<>>
        /\ log = <<>>
        /\ start_pc = "idle"
        /\ udp_task = "pending"
        /\ udp_reads = 1
        /\ server = "listening"
        /\ servers = 1
        /\ probe_schedule = "running"
        /\ sync_schedule = "running"
        /\ retransmit_multi = RetransmitMulti
        /\ suspicion_min_timeout_multi = SuspicionMinTimeoutMulti
        /\ gossiped = <<>>
        /\ timer_handle = 0
        /\ timer_started = FALSE
        /\ timer_time = 1
        /\ loop_handles = <<>>
        /\ timer_calls = 0

NextWindow == DoProbe

SpecWindow == InitWindow /\ [][NextWindow]_vars

\* the nodes picked by e ticks in a row from cursor index, the membership
\* standing still: each tick scans from the cursor the tick before left
RECURSIVE Window(_, _)
Window(index, e) ==
    IF e = 0 THEN <<>>
    ELSE LET scan == ProbeScan(index, 0)
         IN <<scan.node>> \o Window(scan.index, e - 1)

\* C39: with E >= 1 nodes that are neither the local node nor DEAD, the E
\* ticks that follow any state probe each of these nodes once, if the list
\* and the statuses stand still: every tick picks one of them and no two
\* ticks pick the same.
C39_WindowProbesEachEligibleOnce ==
    Eligible # {} =>
      LET w == Window(probe_index, Cardinality(Eligible))
      IN /\ {w[i] : i \in DOMAIN w} = Eligible
         /\ \A i, j \in DOMAIN w : w[i] = w[j] => i = j

\* two ticks have run over a list of four with one DEAD node and two nodes
\* to probe, starting inside the list: they probed the two, one each
C39_Witness ==
    /\ Len(nodes) = 4
    /\ Cardinality(Eligible) = 2
    /\ Len(probes) = 2
    /\ {probes[1].target, probes[2].target} = Eligible
    /\ probes[1].target # probes[2].target
    /\ probe_index < Len(nodes)

----------------------------------------------------------------------------
(* UDPListener (network.py): the receives it posts and their completions,  *)
(* between start() and stop() calls                                        *)

\* how the receive kept in _task completes: with a datagram, with a datagram
\* whose callback raises, or with the exception the socket raised
DataOutcomes == {"data", "callback_raises", "socket_error"}

\* _handle_data, the done callback of the receive in _task (a cancelled
\* receive is the work of stop()).  An exception of the future is logged and
\* the `return` inside the try leaves the function: the _read_data() that
\* ends it is not reached.  A result is handed to _run_callback, which
\* creates the task of the cluster's handler and swallows what the callback
\* raises, and _read_data() posts the next receive and keeps it in _task
HandleData(outcome) ==
    /\ udp_task = "pending"
    /\ IF outcome = "socket_error"
       THEN /\ udp_task' = "failed"
            /\ udp_reads' = udp_reads - 1
            /\ log' = <<[error |-> "socket error", target |-> "udp"]>>
       ELSE /\ udp_task' = "pending"
            /\ udp_reads' = udp_reads
            /\ log' = IF outcome = "callback_raises"
                      THEN <<[error |-> "Error running callback", target |-> "udp"]>>
                      ELSE <<>>
    /\ UNCHANGED <<start_pc, server, servers, probe_schedule, sync_schedule>>
    /\ emitted' = <<>>
    /\ sent' = <<>>
    /\ UNCHANGED clvars
    /\ UNCHANGED <<local_node_name, leaving, local_node_seq, nodes, nodes_map,
                   suspect_nodes, timer_tasks, queue>>
    /\ UNCHANGED <<retransmit_multi, suspicion_min_timeout_multi, gossiped, tmvars>>

NextListen ==
    \/ StartListeners
    \/ StartServerFails
    \/ Start
    \/ Stop
    \/ \E outcome \in DataOutcomes : HandleData(outcome)
    \/ \E name \in ProbeTargets, incarnation \in ProbeIncs, port \in Ports :
         /\ Receiving
         /\ HandleAliveMessage(name, incarnation, TrueHost(name), port, EmptyMeta)
    \/ \E name \in ProbeTargets, incarnation \in ProbeIncs :
         Receiving /\ HandleSuspectMessage(name, incarnation)
    \/ \E name \in ProbeTargets, incarnation \in ProbeIncs :
         Receiving /\ HandleDeadMessage(name, incarnation)

SpecListen == Init /\ [][NextListen]_vars

\* C40: when the listener has handled a completed receive, whatever its
\* outcome, a receive is pending again and _task is that receive.
C40_ReceiveRepostedAfterEveryCompletion ==
    [][\A outcome \in DataOutcomes :
         HandleData(outcome) => (udp_task' = "pending" /\ udp_reads' >= 1)]_vars

====
